---- MODULE Spec2Model ----
(***************************************************************************)
(* Verification model of the EcoSphere environmental-risk service:         *)
(*   - the rule-based risk scorer and forecast deriver                     *)
(*     (server/services/riskCalculator.js),                                *)
(*   - the industry profile table (server/data/industryProfiles),          *)
(*   - the TTL cache (server/lib/cache),                                   *)
(*   - the upstream data sources (openaq / openweather services),          *)
(*   - the Gemini narrative service and the two request handlers           *)
(*     (server/routes/api.js).                                             *)
(*                                                                         *)
(* Numbers.  The JavaScript code computes scores in floating point and     *)
(* rounds them with Math.round.  The model keeps every unrounded score as  *)
(* an exact fraction n/d with d > 0 (inputs are integers), so that         *)
(* thresholds and rounding are decided exactly.                            *)
(***************************************************************************)
EXTENDS Integers, Sequences, FiniteSets, TLC

VARIABLES
    scoreIn,        \* arguments of the scoring call under examination
    riskAnalysis,   \* outcome of calculateOverallRisk(scoreIn)
    forecast,       \* outcome of generateForecast(scoreIn)
    cache,          \* lib/cache: the Map key -> {value, expires}
    now,            \* Date.now(), in clock ticks
    ret,            \* the last cache call and what it returned
    written,        \* history: per key, the last set not yet deleted or cleared
    srcCall,        \* data-source call under examination: function, city, provider behaviour
    srcResult,      \* what that call settled to
    geminiKey,      \* process.env.GEMINI_API_KEY is set
    genAI,          \* gemini service: the client has been created
    cachedModelName,\* gemini service: name of the model found by resolveModel, <<>> if none
    aiCall,         \* narrative call under examination: function and provider behaviour
    aiResult,       \* what that call settled to
    req,            \* routes/api.js: per request slot, the handler's position and locals
    sl,             \* serverless functions (api/*.js): the invocation's position and locals
    alert,          \* alert explanation: the call or request under examination and its outcome
    site,           \* accounts and reports: sessions, users, stored reports, the last request
    app             \* browser client: App, Dashboard and Forecast state, timers, requests in flight

scoreVars == <<scoreIn, riskAnalysis, forecast>>
cacheVars == <<cache, now, ret, written>>
sourceVars == <<srcCall, srcResult>>
geminiVars == <<geminiKey, genAI, cachedModelName>>
aiVars == <<aiCall, aiResult>>
reqVars == <<req>>
slVars == <<sl>>
alertVars == <<alert>>
siteVars == <<site>>
appVars == <<app>>

\* What the actions of one component leave alone.
ScoreFrame == UNCHANGED <<cacheVars, sourceVars, geminiVars, aiVars, reqVars, slVars, alertVars, siteVars, appVars>>
CacheFrame == UNCHANGED <<scoreVars, sourceVars, geminiVars, aiVars, reqVars, slVars, alertVars, siteVars, appVars>>
SourceFrame == UNCHANGED <<scoreVars, cacheVars, geminiVars, aiVars, reqVars, slVars, alertVars, siteVars, appVars>>
AiFrame == UNCHANGED <<scoreVars, cacheVars, sourceVars, reqVars, slVars, alertVars, siteVars, appVars>>
ReqFrame == UNCHANGED <<scoreVars, sourceVars, aiVars, now, ret, written, slVars, alertVars, siteVars, appVars>>
SlFrame == UNCHANGED <<scoreVars, cacheVars, sourceVars, aiVars, reqVars, geminiKey, alertVars, siteVars, appVars>>
AlertFrame ==
    UNCHANGED <<scoreVars, sourceVars, aiVars, reqVars, slVars, now, ret, written, geminiKey,
                siteVars, appVars>>
SiteFrame ==
    UNCHANGED <<scoreVars, cacheVars, sourceVars, geminiVars, aiVars, reqVars, slVars, alertVars,
                appVars>>
AppFrame ==
    UNCHANGED <<scoreVars, cacheVars, sourceVars, geminiVars, aiVars, reqVars, slVars, alertVars,
                siteVars>>

-----------------------------------------------------------------------------
(* Industry profile table                                                  *)

Profile(pp, pt, mp, hf, pf, vm) ==
    [primary_pollutants |-> pp, persistence_type |-> pt, main_pathways |-> mp,
     health_focus |-> hf, preventive_focus |-> pf, vulnerabilityMultiplier |-> vm]

\* vulnerabilityMultiplier is kept in hundredths (1.15 -> <<115>>); a profile
\* that does not define the field holds <<>>.
INDUSTRY_PROFILES ==
    [name \in {"Generic Industrial Zone", "Thermal Power Plant", "Cement Manufacturing",
               "Textile & Dyeing", "Chemical / Petrochemical", "Steel & Metallurgy",
               "Agriculture", "Fishing", "Forestry", "Mining", "Oil Drilling",
               "Automobile Manufacturing", "Textile Production", "Construction",
               "Food Processing"} |->
     CASE name = "Generic Industrial Zone" ->
            Profile(<<"PM2.5", "PM10", "NOx", "VOCs">>, "Short to Medium", <<"Air">>,
                    "Respiratory Health", "General emission reduction", <<>>)
       [] name = "Thermal Power Plant" ->
            Profile(<<"PM2.5", "SO2", "NOx">>, "Medium to Long", <<"Air", "Soil", "Water">>,
                    "Respiratory & cardiovascular", "Stack monitoring & ash management", <<>>)
       [] name = "Cement Manufacturing" ->
            Profile(<<"PM10", "PM2.5", "NOx", "SO2">>, "Medium", <<"Air", "Soil">>,
                    "Respiratory (Silicosis risk)", "Fugitive dust control", <<>>)
       [] name = "Textile & Dyeing" ->
            Profile(<<"VOCs", "Suspended Solids", "Chlorine">>, "Long", <<"Water", "Soil">>,
                    "Dermatological & internal toxicity", "Effluent treatment & recycling", <<>>)
       [] name = "Chemical / Petrochemical" ->
            Profile(<<"VOCs", "PFAS", "Hazardous effluents">>, "Very Long", <<"Water", "Soil", "Air">>,
                    "Chronic toxicity & endocrine disruption", "Leak detection & containment", <<>>)
       [] name = "Steel & Metallurgy" ->
            Profile(<<"PM2.5", "Heavy Metals", "CO", "SO2">>, "Very Long", <<"Air", "Soil">>,
                    "Neurological & respiratory", "Emission capture & waste recycling", <<115>>)
       [] name = "Agriculture" ->
            Profile(<<"Ammonia", "Pesticides", "Methane">>, "Medium", <<"Water", "Soil", "Air">>,
                    "Respiratory & waterborne exposure", "Nutrient management & pesticide controls", <<100>>)
       [] name = "Fishing" ->
            Profile(<<"Marine oil", "Diesel", "Plastic Waste">>, "Medium", <<"Water">>,
                    "Food chain contamination", "Waste control & spill response", <<90>>)
       [] name = "Forestry" ->
            Profile(<<"Diesel", "Herbicides">>, "Medium", <<"Soil", "Air">>,
                    "Ecosystem health", "Sustainable harvesting and erosion control", <<85>>)
       [] name = "Mining" ->
            Profile(<<"Mercury", "Lead", "Particulates">>, "Very Long", <<"Soil", "Water", "Air">>,
                    "Neurological & chronic exposure", "Tailings management & containment", <<125>>)
       [] name = "Oil Drilling" ->
            Profile(<<"Methane", "VOCs", "Hydrocarbons">>, "Long", <<"Air", "Water">>,
                    "Respiratory & long-term toxicity", "Spill prevention & gas reduction", <<125>>)
       [] name = "Automobile Manufacturing" ->
            Profile(<<"VOCs", "Solvents", "PM2.5">>, "Medium", <<"Air", "Soil">>,
                    "Respiratory & dermal exposure", "VOCs capture & paint process controls", <<105>>)
       [] name = "Textile Production" ->
            Profile(<<"Dyes", "VOCs", "Suspended Solids">>, "Long", <<"Water", "Soil">>,
                    "Dermatological and systemic exposure", "Effluent treatment and process optimization", <<100>>)
       [] name = "Construction" ->
            Profile(<<"PM10", "PM2.5", "NOx">>, "Short", <<"Air", "Soil">>,
                    "Respiratory impacts", "Dust suppression and site controls", <<100>>)
       [] name = "Food Processing" ->
            Profile(<<"Organic waste", "Odors", "PM">>, "Short", <<"Water", "Soil">>,
                    "Food safety and water quality", "Wastewater treatment and hygienic controls", <<90>>)]

\* INDUSTRY_PROFILES is a plain object literal: a property read with a name
\* that is not an own key still finds the members inherited from
\* Object.prototype.  Those values are truthy and are not profiles.
ObjectPrototypeKeys ==
    {"constructor", "toString", "valueOf", "hasOwnProperty", "__proto__"}

InheritedMember == [inherited |-> TRUE]

IsProfile(p) == "primary_pollutants" \in DOMAIN p

\* INDUSTRY_PROFILES[industry] || INDUSTRY_PROFILES['Generic Industrial Zone']
LookupProfile(industry) ==
    IF industry \in DOMAIN INDUSTRY_PROFILES THEN INDUSTRY_PROFILES[industry]
    ELSE IF industry \in ObjectPrototypeKeys THEN InheritedMember
    ELSE INDUSTRY_PROFILES["Generic Industrial Zone"]

Includes(seq, x) == \E i \in DOMAIN seq : seq[i] = x

-----------------------------------------------------------------------------
(* Arithmetic helpers                                                      *)

\* Math.round of the fraction n/d (d > 0): the nearest integer, halves up.
MathRound(n, d) == (2 * n + d) \div (2 * d)

\* Numerator of Math.min(100, n/d) over the same denominator d.
Min100(n, d) == IF n > 100 * d THEN 100 * d ELSE n

\* pollutants.<key>?.value || 0 : a missing entry and a zero value both give 0.
ValueOr(obj, key, dflt) ==
    IF key \in DOMAIN obj /\ obj[key] # 0 THEN obj[key] ELSE dflt

-----------------------------------------------------------------------------
(* Classifiers                                                             *)

\* getRiskLevel applied to the fraction n/d.
getRiskLevel(n, d) ==
    IF n <= 33 * d THEN "Low"
    ELSE IF n <= 66 * d THEN "Moderate"
    ELSE "High"

getAQICategory(aqi) ==
    IF aqi <= 50 THEN "Good"
    ELSE IF aqi <= 100 THEN "Satisfactory"
    ELSE IF aqi <= 200 THEN "Moderate"
    ELSE IF aqi <= 300 THEN "Poor"
    ELSE IF aqi <= 400 THEN "Very Poor"
    ELSE "Severe"

-----------------------------------------------------------------------------
(* Impact calculators.  Each returns the ImpactScore fields the claims     *)
(* read: the rounded score and the level computed by the code.             *)

\* score = min(100, pm25/15*(w25/T*100) + pm10/45*(w10/T*100)
\*                  + no2/25*(wn/T*100) + o3/100*(wo/T*100))
\* over the denominator 900*T.
calculateHealthImpactNoPercent(pollutants, profile) ==
    LET pm25 == ValueOr(pollutants, "pm25", 0)
        pm10 == ValueOr(pollutants, "pm10", 0)
        no2  == ValueOr(pollutants, "no2", 0)
        o3   == ValueOr(pollutants, "o3", 0)
        w25  == 40 + (IF Includes(profile.primary_pollutants, "PM2.5") THEN 10 ELSE 0)
        w10  == 25
        wn   == 20 + (IF Includes(profile.primary_pollutants, "NOx") THEN 10 ELSE 0)
        wo   == 15
        totalWeight == w25 + w10 + wn + wo
        d    == 900 * totalWeight
        n    == Min100(1 * (60 * pm25 * w25 + 20 * pm10 * w10
                              + 36 * no2 * wn + 9 * o3 * wo), d)
    IN  [score |-> MathRound(n, d),
         level |-> getRiskLevel(n, d),
         primaryPollutant |-> IF 10 * pm25 > 4 * pm10 THEN "PM2.5" ELSE "PM10"]

calculateHealthImpact(pollutants, profile) ==
    LET pm25 == ValueOr(pollutants, "pm25", 0)
        pm10 == ValueOr(pollutants, "pm10", 0)
        no2  == ValueOr(pollutants, "no2", 0)
        o3   == ValueOr(pollutants, "o3", 0)
        w25  == 40 + (IF Includes(profile.primary_pollutants, "PM2.5") THEN 10 ELSE 0)
        w10  == 25
        wn   == 20 + (IF Includes(profile.primary_pollutants, "NOx") THEN 10 ELSE 0)
        wo   == 15
        totalWeight == w25 + w10 + wn + wo
        d    == 900 * totalWeight
        n    == Min100(100 * (60 * pm25 * w25 + 20 * pm10 * w10
                              + 36 * no2 * wn + 9 * o3 * wo), d)
    IN  [score |-> MathRound(n, d),
         level |-> getRiskLevel(n, d),
         primaryPollutant |-> IF 10 * pm25 > 4 * pm10 THEN "PM2.5" ELSE "PM10"]

\* score = min(100, no2/25*30 + so2/40*35 + o3/100*25 + (humidity < 30 ? 10 : 0))
\* over the denominator 40.
calculateEcosystemImpactDryDefault(pollutants, weather, profile) ==
    LET no2 == ValueOr(pollutants, "no2", 0)
        so2 == ValueOr(pollutants, "so2", 0)
        o3  == ValueOr(pollutants, "o3", 0)
        humidity == ValueOr(weather, "humidity", 20)
        d   == 40
        n   == Min100(48 * no2 + 35 * so2 + 10 * o3
                      + (IF humidity < 30 THEN 400 ELSE 0), d)
    IN  [score |-> MathRound(n, d),
         level |-> getRiskLevel(n, d)]

calculateEcosystemImpact(pollutants, weather, profile) ==
    LET no2 == ValueOr(pollutants, "no2", 0)
        so2 == ValueOr(pollutants, "so2", 0)
        o3  == ValueOr(pollutants, "o3", 0)
        humidity == ValueOr(weather, "humidity", 50)
        d   == 40
        n   == Min100(48 * no2 + 35 * so2 + 10 * o3
                      + (IF humidity < 30 THEN 400 ELSE 0), d)
    IN  [score |-> MathRound(n, d),
         level |-> getRiskLevel(n, d)]

\* score = min(100, pm25/15*35*f + pm10/45*30*f + (10 - min(visibility,10))*3.5)
\* with f in {0.7, 0.85, 1.0}, over the denominator 600.
calculateEnvironmentImpact(pollutants, weather, profile) ==
    LET pm25 == ValueOr(pollutants, "pm25", 0)
        pm10 == ValueOr(pollutants, "pm10", 0)
        visibility == ValueOr(weather, "visibility", 10)
        windSpeed  == ValueOr(weather, "windSpeed", 10)
        dispersionFactor == IF windSpeed > 15 THEN 70
                            ELSE IF windSpeed > 8 THEN 85 ELSE 100
        minVis == IF visibility < 10 THEN visibility ELSE 10
        d   == 600
        n   == Min100(2 * dispersionFactor * (7 * pm25 + 2 * pm10)
                      + 2100 * (10 - minVis), d)
    IN  [score |-> MathRound(n, d),
         level |-> getRiskLevel(n, d),
         components |->
            [air   |-> getRiskLevel(5 * (3 * pm25 + pm10), 9),
             water |-> IF Includes(profile.main_pathways, "Water") THEN "Monitoring" ELSE "Stable",
             soil  |-> IF Includes(profile.main_pathways, "Soil") THEN "Attention" ELSE "Stable"]]

\* score = min(100, healthImpact.score*0.5 + pm25/15*25 + (pm25 > 100 ? 15 : 0))
\* over the denominator 6.
calculateSocioEconomicImpact(pollutants, healthImpact, profile) ==
    LET pm25 == ValueOr(pollutants, "pm25", 0)
        d   == 6
        n   == Min100(3 * healthImpact.score + 10 * pm25
                      + (IF pm25 > 100 THEN 90 ELSE 0), d)
    IN  [score |-> MathRound(n, d),
         level |-> getRiskLevel(n, d)]

\* identifyPrimaryConcerns(pollutants, current, profile): the second argument
\* is already weather.current, and the rule reads weather.current?.temperature
\* of it, i.e. the field `current` of the current-conditions object.
ConcernPM25Industry ==
    "High PM2.5 levels combined with combustion-based industry increase respiratory exposure risk."
ConcernPM25Generic == "Elevated ambient PM2.5 requires monitoring."
ConcernVOC == "High temperatures may increase VOC volatilization risk."
ConcernRoutine == "Routine environmental monitoring active."

identifyPrimaryConcerns(pollutants, weather, profile) ==
    LET pm25 == ValueOr(pollutants, "pm25", 0)
        c1 == IF pm25 > 100
              THEN IF Includes(profile.primary_pollutants, "PM2.5")
                   THEN <<ConcernPM25Industry>> ELSE <<ConcernPM25Generic>>
              ELSE <<>>
        nestedHot == /\ "current" \in DOMAIN weather
                     /\ "temperature" \in DOMAIN weather["current"]
                     /\ weather["current"]["temperature"] > 30
        c2 == IF Includes(profile.primary_pollutants, "VOCs") /\ nestedHot
              THEN <<ConcernVOC>> ELSE <<>>
        concerns == c1 \o c2
    IN  IF Len(concerns) = 0 THEN <<ConcernRoutine>> ELSE concerns

TypeError == [status |-> "TypeError"]

\* calculateOverallRisk(airQuality, weather, industry)
calculateOverallRisk(airQuality, weather, industry) ==
    LET pollutants == IF "pollutants" \in DOMAIN airQuality
                      THEN airQuality["pollutants"] ELSE [k \in {} |-> 0]
        current    == IF "current" \in DOMAIN weather
                      THEN weather["current"] ELSE [k \in {} |-> 0]
        aqiObj     == IF "aqi" \in DOMAIN airQuality
                      THEN airQuality["aqi"] ELSE [k \in {} |-> 0]
        profile    == LookupProfile(industry)
    IN  IF ~IsProfile(profile) THEN TypeError
        ELSE
        LET healthImpact == calculateHealthImpact(pollutants, profile)
            ecosystemImpact == calculateEcosystemImpact(pollutants, current, profile)
            environmentImpact == calculateEnvironmentImpact(pollutants, current, profile)
            socioEconomicImpact == calculateSocioEconomicImpact(pollutants, healthImpact, profile)
            \* overallScore as a fraction over 100
            n == 35 * healthImpact.score + 20 * ecosystemImpact.score
                 + 25 * environmentImpact.score + 20 * socioEconomicImpact.score
            d == 100
            riskLevel == getRiskLevel(n, d)
            aqi == IF "value" \in DOMAIN aqiObj /\ aqiObj["value"] # 0
                   THEN aqiObj["value"] ELSE MathRound(5 * n, d)
        IN  [status |-> "ok",
             overallRisk |-> [score |-> MathRound(n, d),
                              level |-> riskLevel,
                              aqi |-> aqi,
                              category |-> IF "category" \in DOMAIN aqiObj
                                           THEN aqiObj["category"]
                                           ELSE getAQICategory(aqi)],
             impacts |-> [humanHealth |-> healthImpact,
                          ecosystems |-> ecosystemImpact,
                          environment |-> environmentImpact,
                          socioEconomic |-> socioEconomicImpact],
             primaryConcerns |-> identifyPrimaryConcerns(pollutants, current, profile),
             industryContext |-> profile]

-----------------------------------------------------------------------------
(* Forecast derivation                                                     *)

Field(obj, key) == IF key \in DOMAIN obj THEN obj[key] ELSE [k \in {} |-> 0]

\* generateLongTermForecast(airQuality, profile)
generateLongTermForecast(airQuality, profile) ==
    LET aqi == ValueOr(Field(airQuality, "aqi"), "value", 150)
    IN  [chemicalAccumulation |->
            [level |-> IF profile.persistence_type = "Very Long" THEN "High"
                       ELSE IF \/ profile.persistence_type = "Long"
                               \/ (profile.persistence_type = "Medium" /\ aqi > 200)
                            THEN "Moderate" ELSE "Low"],
         groundwaterRisk |->
            [level |-> IF Includes(profile.main_pathways, "Water") THEN "Moderate" ELSE "Low"],
         soilContamination |->
            [level |-> IF Includes(profile.main_pathways, "Soil") THEN "Moderate" ELSE "Low"]]

\* identifyRiskDrivers(airQuality, profile)
DriverSeverityNoPotential(pollutant, pollutants) ==
    IF pollutant = "PM2.5" /\ "pm25" \in DOMAIN pollutants
    THEN IF pollutants["pm25"] > 60 THEN "High" ELSE "Moderate"
    ELSE IF pollutant = "PM10" /\ "pm10" \in DOMAIN pollutants
    THEN IF pollutants["pm10"] > 100 THEN "High" ELSE "Moderate"
    ELSE IF pollutant = "NOx" /\ "no2" \in DOMAIN pollutants
    THEN IF pollutants["no2"] > 40 THEN "High" ELSE "Moderate"
    ELSE IF pollutant = "SO2" /\ "so2" \in DOMAIN pollutants
    THEN IF pollutants["so2"] > 40 THEN "High" ELSE "Moderate"
    ELSE "Moderate"

DriverSeverity(pollutant, pollutants) ==
    IF pollutant = "PM2.5" /\ "pm25" \in DOMAIN pollutants
    THEN IF pollutants["pm25"] > 60 THEN "High" ELSE "Moderate"
    ELSE IF pollutant = "PM10" /\ "pm10" \in DOMAIN pollutants
    THEN IF pollutants["pm10"] > 100 THEN "High" ELSE "Moderate"
    ELSE IF pollutant = "NOx" /\ "no2" \in DOMAIN pollutants
    THEN IF pollutants["no2"] > 40 THEN "High" ELSE "Moderate"
    ELSE IF pollutant = "SO2" /\ "so2" \in DOMAIN pollutants
    THEN IF pollutants["so2"] > 40 THEN "High" ELSE "Moderate"
    ELSE "Potential"

identifyRiskDrivers(airQuality, profile) ==
    LET pollutants == Field(airQuality, "pollutants")
        pp == profile.primary_pollutants
        drivers == [i \in 1..Len(pp) |->
                      [factor |-> pp[i],
                       severity |-> DriverSeverity(pp[i], pollutants),
                       persistence |-> profile.persistence_type]]
    IN  IF profile.persistence_type = "Long" \/ profile.persistence_type = "Very Long"
        THEN Append(drivers, [factor |-> "Chemical Persistence",
                              severity |-> "High",
                              persistence |-> profile.persistence_type])
        ELSE drivers

\* generateEarlyWarnings(airQuality, weatherForecast, profile)
WarnAirQuality ==
    [type |-> "air_quality", severity |-> "attention",
     message |-> "Air quality critically elevated. Immediate reduction in dust-generating activities advised."]
WarnDispersion ==
    [type |-> "weather", severity |-> "attention",
     message |-> "Dispersion Limited: Stagnant conditions likely to trap industrial emissions."]
WarnAccumulation ==
    [type |-> "accumulation", severity |-> "attention",
     message |-> "Long-Term Accumulation Likely: Persistent contaminants require strict containment."]
WarnPersistentRisk ==
    [type |-> "accumulation", severity |-> "info",
     message |-> "Persistent Risk Detected: Sustained high levels may lead to environmental loading."]
WarnStatusNormal ==
    [type |-> "status", severity |-> "normal",
     message |-> "Conditions within manageable limits."]

generateEarlyWarningsNoStatus(airQuality, weatherForecast, profile) ==
    LET aqi == ValueOr(Field(airQuality, "aqi"), "value", 100)
        trends == Field(weatherForecast, "trends")
        w1 == IF aqi > 200 THEN <<WarnAirQuality>> ELSE <<>>
        w2 == IF /\ "windTrend" \in DOMAIN trends
                 /\ trends["windTrend"] = "decreasing"
                 /\ Includes(profile.primary_pollutants, "PM2.5")
              THEN <<WarnDispersion>> ELSE <<>>
        w3 == IF profile.persistence_type = "Very Long" \/ profile.persistence_type = "Long"
              THEN <<WarnAccumulation>>
              ELSE IF aqi > 150 THEN <<WarnPersistentRisk>> ELSE <<>>
    IN  w1 \o w2 \o w3

generateEarlyWarningsAnyProfile(airQuality, weatherForecast, profile) ==
    LET aqi == ValueOr(Field(airQuality, "aqi"), "value", 100)
        trends == Field(weatherForecast, "trends")
        w1 == IF aqi > 200 THEN <<WarnAirQuality>> ELSE <<>>
        w2 == IF /\ "windTrend" \in DOMAIN trends
                 /\ trends["windTrend"] = "decreasing"
              THEN <<WarnDispersion>> ELSE <<>>
        w3 == IF profile.persistence_type = "Very Long" \/ profile.persistence_type = "Long"
              THEN <<WarnAccumulation>>
              ELSE IF aqi > 150 THEN <<WarnPersistentRisk>> ELSE <<>>
        warnings == w1 \o w2 \o w3
    IN  IF Len(warnings) = 0 THEN <<WarnStatusNormal>> ELSE warnings

generateEarlyWarnings(airQuality, weatherForecast, profile) ==
    LET aqi == ValueOr(Field(airQuality, "aqi"), "value", 100)
        trends == Field(weatherForecast, "trends")
        w1 == IF aqi > 200 THEN <<WarnAirQuality>> ELSE <<>>
        w2 == IF /\ "windTrend" \in DOMAIN trends
                 /\ trends["windTrend"] = "decreasing"
                 /\ Includes(profile.primary_pollutants, "PM2.5")
              THEN <<WarnDispersion>> ELSE <<>>
        w3 == IF profile.persistence_type = "Very Long" \/ profile.persistence_type = "Long"
              THEN <<WarnAccumulation>>
              ELSE IF aqi > 150 THEN <<WarnPersistentRisk>> ELSE <<>>
        warnings == w1 \o w2 \o w3
    IN  IF Len(warnings) = 0 THEN <<WarnStatusNormal>> ELSE warnings

\* generatePreventiveActions(airQuality, weatherForecast, profile)
ActMonitoring == [priority |-> 1, action |-> "Enhanced Environmental Monitoring"]
ActWater == [priority |-> 3, action |-> "Effluent & Groundwater Management"]
ActPersistentWaste == [priority |-> 4, action |-> "Review Persistent Waste Handling"]
ActStakeholder == [priority |-> 4, action |-> "Stakeholder Communication"]

generatePreventiveActionsAlwaysStakeholder(airQuality, weatherForecast, profile) ==
    LET a1 == <<ActMonitoring>>
        a2 == IF profile.preventive_focus # ""
              THEN <<[priority |-> 2, action |-> profile.preventive_focus]>> ELSE <<>>
        a3 == IF Includes(profile.main_pathways, "Water") THEN <<ActWater>> ELSE <<>>
        actions == a1 \o a2 \o a3 \o <<ActStakeholder>>
    IN  SubSeq(actions, 1, IF Len(actions) < 4 THEN Len(actions) ELSE 4)

generatePreventiveActions(airQuality, weatherForecast, profile) ==
    LET a1 == <<ActMonitoring>>
        a2 == IF profile.preventive_focus # ""
              THEN <<[priority |-> 2, action |-> profile.preventive_focus]>> ELSE <<>>
        a3 == IF Includes(profile.main_pathways, "Water") THEN <<ActWater>> ELSE <<>>
        a4 == IF profile.persistence_type = "Very Long"
              THEN <<ActPersistentWaste>> ELSE <<ActStakeholder>>
        actions == a1 \o a2 \o a3 \o a4
    IN  SubSeq(actions, 1, IF Len(actions) < 4 THEN Len(actions) ELSE 4)

\* getPrimaryConcern(airQuality, profile)
getPrimaryConcern(airQuality, profile) ==
    LET pm25 == ValueOr(Field(airQuality, "pollutants"), "pm25", 0)
    IN  IF pm25 > 150 THEN <<"High Particulate Matter", profile.health_focus>>
        ELSE <<"Routine monitoring", profile.primary_pollutants[1]>>

\* generateForecast(airQuality, weatherForecast, industry)
\* baseRiskScore is a fraction over 3, adjustedRiskScore a fraction over 300.
generateForecast(airQuality, weatherForecast, industry) ==
    LET profile == LookupProfile(industry)
    IN  IF ~IsProfile(profile) THEN TypeError
        ELSE
        LET aqiValue == ValueOr(Field(airQuality, "aqi"), "value", 0)
            baseN == IF aqiValue # 0 THEN Min100(aqiValue, 3) ELSE 150
            multiplier == IF profile.vulnerabilityMultiplier # <<>>
                             /\ profile.vulnerabilityMultiplier[1] # 0
                          THEN profile.vulnerabilityMultiplier[1] ELSE 100
            adjN == Min100(baseN * multiplier, 300)
        IN  [status |-> "ok",
             overallRisk |-> [level |-> getRiskLevel(adjN, 300),
                              score |-> MathRound(adjN, 300),
                              rawScore |-> MathRound(baseN, 3),
                              multiplier |-> multiplier,
                              primaryConcern |-> getPrimaryConcern(airQuality, profile)],
             shortTerm |-> <<>>,
             longTerm |-> generateLongTermForecast(airQuality, profile),
             riskDrivers |-> identifyRiskDrivers(airQuality, profile),
             earlyWarnings |-> generateEarlyWarnings(airQuality, weatherForecast, profile),
             preventiveActions |-> generatePreventiveActions(airQuality, weatherForecast, profile),
             industryContext |-> profile]

-----------------------------------------------------------------------------
(* Upstream data sources (services/openaq, services/openweather).  A call  *)
(* is a function of the city and of what the provider does during the      *)
(* call.  The carbon-monoxide entry is carried by the code but read by no  *)
(* scorer; it is left out of the readings.                                 *)

DEMO_DATA ==
    [city \in {"Delhi", "Mumbai", "Bangalore", "Chennai", "Kolkata",
               "Hyderabad", "Pune", "Ahmedabad", "Jaipur", "Lucknow"} |->
     CASE city = "Delhi"     -> [pm25 |-> 156, pm10 |-> 245, no2 |-> 62, o3 |-> 45, so2 |-> 18]
       [] city = "Mumbai"    -> [pm25 |-> 89,  pm10 |-> 142, no2 |-> 48, o3 |-> 52, so2 |-> 14]
       [] city = "Bangalore" -> [pm25 |-> 67,  pm10 |-> 98,  no2 |-> 35, o3 |-> 58, so2 |-> 8]
       [] city = "Chennai"   -> [pm25 |-> 72,  pm10 |-> 115, no2 |-> 42, o3 |-> 48, so2 |-> 12]
       [] city = "Kolkata"   -> [pm25 |-> 112, pm10 |-> 178, no2 |-> 55, o3 |-> 38, so2 |-> 22]
       [] city = "Hyderabad" -> [pm25 |-> 78,  pm10 |-> 125, no2 |-> 38, o3 |-> 55, so2 |-> 10]
       [] city = "Pune"      -> [pm25 |-> 65,  pm10 |-> 95,  no2 |-> 32, o3 |-> 48, so2 |-> 9]
       [] city = "Ahmedabad" -> [pm25 |-> 95,  pm10 |-> 155, no2 |-> 45, o3 |-> 42, so2 |-> 16]
       [] city = "Jaipur"    -> [pm25 |-> 88,  pm10 |-> 148, no2 |-> 40, o3 |-> 50, so2 |-> 13]
       [] city = "Lucknow"   -> [pm25 |-> 125, pm10 |-> 195, no2 |-> 52, o3 |-> 40, so2 |-> 19]]

PollutantKeys == {"pm25", "pm10", "no2", "o3", "so2"}

\* DEMO_DATA[city] || DEMO_DATA.Delhi
DemoCity(city) == IF city \in DOMAIN DEMO_DATA THEN DEMO_DATA[city] ELSE DEMO_DATA["Delhi"]

\* calculateAQI(data): piecewise-linear in data.pm25, capped at 500.
calculateAQI(data) ==
    LET pm25 == data.pm25
        aqi == IF pm25 <= 30 THEN MathRound(5 * pm25, 3)
               ELSE IF pm25 <= 60 THEN 50 + MathRound(5 * (pm25 - 30), 3)
               ELSE IF pm25 <= 90 THEN 100 + MathRound(10 * (pm25 - 60), 3)
               ELSE IF pm25 <= 120 THEN 200 + MathRound(10 * (pm25 - 90), 3)
               ELSE IF pm25 <= 250 THEN 300 + MathRound(10 * (pm25 - 120), 13)
               ELSE 400 + MathRound(10 * (pm25 - 250), 13)
        category == IF pm25 <= 30 THEN "Good"
                    ELSE IF pm25 <= 60 THEN "Satisfactory"
                    ELSE IF pm25 <= 90 THEN "Moderate"
                    ELSE IF pm25 <= 120 THEN "Poor"
                    ELSE IF pm25 <= 250 THEN "Very Poor"
                    ELSE "Severe"
    IN  [value |-> IF aqi < 500 THEN aqi ELSE 500, category |-> category]

\* getDemoData(city): each value is the city's base value times a random
\* factor in [0.9, 1.1), rounded; `variation` gives the factor drawn for each
\* pollutant, in hundredths.
getDemoData(city, variation) ==
    LET cityData == DemoCity(city)
    IN  [settled |-> "resolved",
         city |-> city,
         isDemo |-> TRUE,
         pollutants |-> [k \in PollutantKeys |-> MathRound(cityData[k] * variation[k], 100)],
         aqi |-> calculateAQI(cityData)]

\* String.prototype.toLowerCase on the parameter names the provider sends.
ToLowerCase(name) ==
    CASE name = "PM25" -> "pm25"
      [] name = "NO2" -> "no2"
      [] OTHER -> name

\* processOpenAQData: the measurements object built from data.results; a
\* result without parameter.name is skipped, a later result of the same
\* parameter overwrites an earlier one.
Measurements(results) ==
    LET named == {j \in DOMAIN results : "name" \in DOMAIN results[j]}
        names == {ToLowerCase(results[j].name) : j \in named}
        lastOf(n) == CHOOSE j \in named :
                        /\ ToLowerCase(results[j].name) = n
                        /\ \A i \in named : ToLowerCase(results[i].name) = n => i <= j
    IN  [n \in names |-> results[lastOf(n)].value]

\* normalizeAirQualityData(measurements, city)
normalizeAirQualityData(measurements, city) ==
    LET demoCity == DemoCity(city)
        aqiData == IF "pm25" \in DOMAIN measurements
                   THEN [pm25 |-> measurements["pm25"]] ELSE demoCity
    IN  [settled |-> "resolved",
         city |-> city,
         isDemo |-> (DOMAIN measurements = {}),
         pollutants |-> [k \in PollutantKeys |->
                            IF k \in DOMAIN measurements THEN measurements[k] ELSE demoCity[k]],
         aqi |-> calculateAQI(aqiData)]

Pending == [settled |-> "pending"]
Threw == [settled |-> "threw"]
Rejected == [settled |-> "rejected"]

\* The body of the try block of getAirQuality.  `up` describes the provider:
\*   up.key     - OPENAQ_API_KEY is set
\*   up.loc     - the /locations fetch: "hangs", "throws", "notOk",
\*                "badJson", "noStation" or "station"
\*   up.latest  - the /latest fetch: "hangs", "throws", "notOk", "badJson",
\*                "malformed" (a parameter name that is not a string) or "ok"
\*   up.results - data.results of the /latest response
getAirQualityTry(city, up, variation) ==
    IF ~up.key THEN getDemoData(city, variation)
    ELSE IF up.loc = "hangs" THEN Pending
    ELSE IF up.loc \in {"throws", "badJson"} THEN Threw
    ELSE IF up.loc = "notOk" \/ up.loc = "noStation" THEN getDemoData(city, variation)
    ELSE IF up.latest = "hangs" THEN Pending
    ELSE IF up.latest \in {"throws", "badJson", "malformed"} THEN Threw
    ELSE IF up.latest = "notOk" THEN getDemoData(city, variation)
    ELSE normalizeAirQualityData(Measurements(up.results), city)

\* getAirQuality(city): try { ... } catch { return getDemoData(city) }
getAirQualityNoCatch(city, up, variation) ==
    LET r == getAirQualityTry(city, up, variation)
    IN  IF r.settled = "threw" THEN Rejected ELSE r

getAirQuality(city, up, variation) ==
    LET r == getAirQualityTry(city, up, variation)
    IN  IF r.settled = "threw" THEN getDemoData(city, variation) ELSE r

DEMO_WEATHER ==
    [city \in {"Delhi", "Mumbai", "Bangalore", "Chennai", "Kolkata"} |->
     CASE city = "Delhi"     -> [temp |-> 18, humidity |-> 65, windSpeed |-> 8,  visibility |-> 4]
       [] city = "Mumbai"    -> [temp |-> 28, humidity |-> 75, windSpeed |-> 12, visibility |-> 8]
       [] city = "Bangalore" -> [temp |-> 24, humidity |-> 55, windSpeed |-> 10, visibility |-> 10]
       [] city = "Chennai"   -> [temp |-> 30, humidity |-> 80, windSpeed |-> 15, visibility |-> 7]
       [] city = "Kolkata"   -> [temp |-> 22, humidity |-> 70, windSpeed |-> 6,  visibility |-> 5]]

DemoWeatherBase(city) ==
    IF city \in DOMAIN DEMO_WEATHER THEN DEMO_WEATHER[city] ELSE DEMO_WEATHER["Delhi"]

\* getDemoWeather(city): base values times a random factor in [0.95, 1.05).
getDemoWeather(city, variation) ==
    LET baseData == DemoWeatherBase(city)
    IN  [settled |-> "resolved",
         city |-> city,
         isDemo |-> TRUE,
         current |-> [temperature |-> MathRound(baseData.temp * variation, 100),
                      humidity |-> MathRound(baseData.humidity * variation, 100),
                      windSpeed |-> MathRound(baseData.windSpeed * variation, 100),
                      visibility |-> MathRound(baseData.visibility * variation, 100)]]

\* processWeatherData(data, city); data.wind.speed is in tenths of m/s and
\* data.visibility in metres (0 or missing reads as 10000).
processWeatherData(data, city) ==
    [settled |-> "resolved",
     city |-> city,
     isDemo |-> FALSE,
     current |-> [temperature |-> data.temp,
                  humidity |-> data.humidity,
                  windSpeed |-> MathRound(36 * data.windSpeed, 100),
                  visibility |-> MathRound(IF data.visibility # 0 THEN data.visibility ELSE 10000,
                                           1000)]]

\* The body of the try block of getCurrentWeather.
\*   up.key      - OPENWEATHERMAP_API_KEY is set
\*   up.response - "hangs", "throws", "notOk", "badJson", "malformed"
\*                 (a body without main / wind) or "ok"
\*   up.data     - the parsed body
getCurrentWeatherTry(city, up, variation) ==
    IF ~up.key THEN getDemoWeather(city, variation)
    ELSE IF up.response = "hangs" THEN Pending
    ELSE IF up.response \in {"throws", "badJson", "malformed"} THEN Threw
    ELSE IF up.response = "notOk" THEN getDemoWeather(city, variation)
    ELSE processWeatherData(up.data, city)

getCurrentWeather(city, up, variation) ==
    LET r == getCurrentWeatherTry(city, up, variation)
    IN  IF r.settled = "threw" THEN getDemoWeather(city, variation) ELSE r

\* analyzeTrends(forecast), wind part: compares the last day with the first.
analyzeTrends(days) ==
    IF Len(days) < 2 THEN [windTrend |-> "stable"]
    ELSE [windTrend |-> IF days[Len(days)].windSpeed > days[1].windSpeed + 5 THEN "increasing"
                        ELSE IF days[Len(days)].windSpeed < days[1].windSpeed - 5 THEN "decreasing"
                        ELSE "stable"]

\* processForecastData(data, city); up.data is the list of days, each with
\* the rounded mean wind speed of its items.
processForecastData(data, city) ==
    [settled |-> "resolved",
     city |-> city,
     isDemo |-> FALSE,
     trends |-> analyzeTrends(data)]

\* getDemoForecast(city): random days, fixed trends.
getDemoForecast(city) ==
    [settled |-> "resolved",
     city |-> city,
     isDemo |-> TRUE,
     trends |-> [windTrend |-> "decreasing"]]

getWeatherForecastTry(city, up) ==
    IF ~up.key THEN getDemoForecast(city)
    ELSE IF up.response = "hangs" THEN Pending
    ELSE IF up.response \in {"throws", "badJson", "malformed"} THEN Threw
    ELSE IF up.response = "notOk" THEN getDemoForecast(city)
    ELSE processForecastData(up.data, city)

getWeatherForecast(city, up) ==
    LET r == getWeatherForecastTry(city, up)
    IN  IF r.settled = "threw" THEN getDemoForecast(city) ELSE r

-----------------------------------------------------------------------------
(* Gemini narrative service (routes/api.js, second half; serverless        *)
(* variant in api/_services/gemini).                                       *)

\* getClient(): creates the client on first use when the key is set.
\* The value is both what it returns and genAI afterwards.
getClient(g, key) == IF ~g /\ key THEN TRUE ELSE g

\* resolveModel(client).  `stages` gives what the three searches do:
\*   stages[1] - client.listModels: "absent", "fails", "finds", "hangs"
\*   stages[2] - manual GEMINI_MODEL / REST ListModels: "fails", "finds", "hangs"
\*   stages[3] - the fixed fallback candidates: "fails", "finds", "hangs"
\* Every probe awaits a generateContent call of the provider.
resolveModel(cached, stages) ==
    IF cached # <<>> THEN [outcome |-> "model", cachedModelName |-> cached]
    ELSE IF stages[1] = "hangs" THEN [outcome |-> "hangs", cachedModelName |-> cached]
    ELSE IF stages[1] = "finds" THEN [outcome |-> "model", cachedModelName |-> <<"listed">>]
    ELSE IF stages[2] = "hangs" THEN [outcome |-> "hangs", cachedModelName |-> cached]
    ELSE IF stages[2] = "finds" THEN [outcome |-> "model", cachedModelName |-> <<"rest">>]
    ELSE IF stages[3] = "hangs" THEN [outcome |-> "hangs", cachedModelName |-> cached]
    ELSE IF stages[3] = "finds" THEN [outcome |-> "model", cachedModelName |-> <<"fallback">>]
    ELSE [outcome |-> "throws", cachedModelName |-> cached]

\* resolveModel of the serverless variant: only the candidate loop.
resolveModelServerless(cached, stages) ==
    IF cached # <<>> THEN [outcome |-> "model", cachedModelName |-> cached]
    ELSE IF stages[3] = "hangs" THEN [outcome |-> "hangs", cachedModelName |-> cached]
    ELSE IF stages[3] = "finds" THEN [outcome |-> "model", cachedModelName |-> <<"candidate">>]
    ELSE [outcome |-> "throws", cachedModelName |-> cached]

\* A response text: a body, possibly wrapped in ```json ... ``` fences.
AiTexts == [fenced : BOOLEAN, body : {"object", "prose", "empty"}]

\* text.replace(/```json/g, '').replace(/```/g, '').trim()
StripFences(text) == [text EXCEPT !.fenced = FALSE]

\* The structure a well-formed forecast answer parses to.
ParsedForecast ==
    [stress_windows |-> <<[level |-> "High", condition |-> "from the model"]>>,
     exposure_breakdown |-> <<[type |-> "Respiratory Exposure", risk_level |-> "High"]>>,
     behavior_analysis |-> "from the model",
     early_warnings |-> <<[severity |-> "warning", message |-> "from the model"]>>]

\* JSON.parse(text): <<value>> or <<>> when it throws a SyntaxError.
JsonParse(text) ==
    IF ~text.fenced /\ text.body = "object" THEN <<ParsedForecast>> ELSE <<>>

\* getDefaultForecastInterpretation(forecast, industry)
getDefaultForecastInterpretation ==
    [stress_windows |->
        <<[level |-> "Moderate", condition |-> "Typical seasonal variability"]>>,
     exposure_breakdown |->
        <<[type |-> "Respiratory Exposure", risk_level |-> "Moderate"],
          [type |-> "Operational Disruption", risk_level |-> "Low"]>>,
     behavior_analysis |->
        "Weather patterns are currently stable. Pollutant dispersion is normal for this time of year, with no immediate critical risk indicators identified.",
     early_warnings |-> <<>>]

\* defaultForecast() of the serverless variant
defaultForecast ==
    [stress_windows |-> <<>>,
     exposure_breakdown |-> <<>>,
     behavior_analysis |-> "Stable conditions",
     early_warnings |-> <<>>]

\* interpretForecast(forecast, airQuality, weather, industry).
\*   beh.stages   - see resolveModel
\*   beh.generate - model.generateContent(prompt): "ok", "throws", "hangs"
\*   beh.text     - the response text
\* Returns the settlement, the value and the service state afterwards.
interpretForecastNoFallback(g, key, cached, beh) ==
    LET client == getClient(g, key)
        rm == resolveModel(cached, beh.stages)
        parsed == JsonParse(StripFences(beh.text))
    IN  IF ~client
        THEN [settled |-> "resolved", value |-> getDefaultForecastInterpretation,
              genAI |-> client, cachedModelName |-> cached]
        ELSE IF rm.outcome = "hangs" \/ (rm.outcome = "model" /\ beh.generate = "hangs")
        THEN [settled |-> "pending", genAI |-> client, cachedModelName |-> rm.cachedModelName]
        ELSE IF rm.outcome = "throws" \/ beh.generate = "throws" \/ parsed = <<>>
        THEN [settled |-> "rejected", genAI |-> client, cachedModelName |-> rm.cachedModelName]
        ELSE [settled |-> "resolved", value |-> parsed[1],
              genAI |-> client, cachedModelName |-> rm.cachedModelName]

interpretForecast(g, key, cached, beh) ==
    LET client == getClient(g, key)
        rm == resolveModel(cached, beh.stages)
        parsed == JsonParse(StripFences(beh.text))
    IN  IF ~client
        THEN [settled |-> "resolved", value |-> getDefaultForecastInterpretation,
              genAI |-> client, cachedModelName |-> cached]
        ELSE IF rm.outcome = "hangs" \/ (rm.outcome = "model" /\ beh.generate = "hangs")
        THEN [settled |-> "pending", genAI |-> client, cachedModelName |-> rm.cachedModelName]
        ELSE IF rm.outcome = "throws" \/ beh.generate = "throws"
        THEN [settled |-> "resolved", value |-> getDefaultForecastInterpretation,
              genAI |-> client, cachedModelName |-> rm.cachedModelName]
        ELSE [settled |-> "resolved",
              value |-> IF parsed # <<>> THEN parsed[1] ELSE getDefaultForecastInterpretation,
              genAI |-> client, cachedModelName |-> rm.cachedModelName]

\* interpretForecast of the serverless variant: JSON.parse of the raw text,
\* one catch around everything.
interpretForecastServerless(g, key, cached, beh) ==
    LET client == getClient(g, key)
        rm == resolveModelServerless(cached, beh.stages)
        parsed == JsonParse(beh.text)
    IN  IF ~client
        THEN [settled |-> "resolved", value |-> defaultForecast,
              genAI |-> client, cachedModelName |-> cached]
        ELSE IF rm.outcome = "hangs" \/ (rm.outcome = "model" /\ beh.generate = "hangs")
        THEN [settled |-> "pending", genAI |-> client, cachedModelName |-> rm.cachedModelName]
        ELSE IF rm.outcome = "throws" \/ beh.generate = "throws"
        THEN [settled |-> "resolved", value |-> defaultForecast,
              genAI |-> client, cachedModelName |-> rm.cachedModelName]
        ELSE [settled |-> "resolved",
              value |-> IF parsed # <<>> THEN parsed[1] ELSE defaultForecast,
              genAI |-> client, cachedModelName |-> rm.cachedModelName]

AiBehaviours ==
    [stages : {"absent", "fails", "finds", "hangs"} \X {"fails", "finds", "hangs"}
              \X {"fails", "finds", "hangs"},
     generate : {"ok", "throws", "hangs"},
     text : AiTexts]

GeminiIdle ==
    /\ geminiKey = FALSE
    /\ genAI = FALSE
    /\ cachedModelName = <<>>

AiIdle ==
    /\ aiCall = [fn |-> "none"]
    /\ aiResult = [settled |-> "none"]

\* The service may already have served calls: a client exists only if the
\* key is set, a model name is cached only if a client exists.
AiInit ==
    /\ geminiKey \in BOOLEAN
    /\ genAI \in {g \in BOOLEAN : g => geminiKey}
    /\ cachedModelName \in {c \in {<<>>, <<"rest">>} : c # <<>> => genAI}
    /\ aiCall \in [fn : {"interpretForecast", "interpretForecastServerless"},
                   beh : AiBehaviours]
    /\ aiResult = [settled |-> "none"]

CallInterpretForecast ==
    /\ aiCall.fn = "interpretForecast"
    /\ aiResult.settled = "none"
    /\ LET r == interpretForecast(genAI, geminiKey, cachedModelName, aiCall.beh)
       IN  /\ aiResult' = IF r.settled = "resolved"
                          THEN [settled |-> "resolved", value |-> r.value]
                          ELSE [settled |-> r.settled]
           /\ genAI' = r.genAI
           /\ cachedModelName' = r.cachedModelName
    /\ UNCHANGED <<geminiKey, aiCall>>
    /\ AiFrame

CallInterpretForecastServerless ==
    /\ aiCall.fn = "interpretForecastServerless"
    /\ aiResult.settled = "none"
    /\ LET r == interpretForecastServerless(genAI, geminiKey, cachedModelName, aiCall.beh)
       IN  /\ aiResult' = IF r.settled = "resolved"
                          THEN [settled |-> "resolved", value |-> r.value]
                          ELSE [settled |-> r.settled]
           /\ genAI' = r.genAI
           /\ cachedModelName' = r.cachedModelName
    /\ UNCHANGED <<geminiKey, aiCall>>
    /\ AiFrame

-----------------------------------------------------------------------------
(* Scoring calls: the arguments are drawn by Init, the two exported        *)
(* functions are applied to them.                                          *)

Opt(S) == {<<>>} \cup {<<v>> : v \in S}

\* The object whose keys are the chosen (present) entries of `choice`.
ObjectOf(choice) ==
    [k \in {k \in DOMAIN choice : choice[k] # <<>>} |-> choice[k][1]]

Industries == DOMAIN INDUSTRY_PROFILES \cup {"Unknown Plant", "", "constructor"}

AqiObjects ==
    {<<>>, <<[value |-> 0, category |-> "Good"]>>,
     <<[value |-> 250, category |-> "Poor"]>>}

RiskPollutants ==
    {ObjectOf([pm25 |-> a, pm10 |-> b, no2 |-> c, o3 |-> d, so2 |-> e]) :
        a \in Opt({-15, 0, 101, 156}), b \in Opt({245}), c \in Opt({62}),
        d \in Opt({45}), e \in Opt({18, 38})}
      \cup {[pm25 |-> 0, pm10 |-> 0, no2 |-> 0, o3 |-> 0, so2 |-> 0]}

CurrentConditions ==
    {ObjectOf([temperature |-> <<>>, humidity |-> <<>>, windSpeed |-> <<>>, visibility |-> <<>>]),
     ObjectOf([temperature |-> <<18>>, humidity |-> <<65>>, windSpeed |-> <<8>>, visibility |-> <<4>>]),
     ObjectOf([temperature |-> <<35>>, humidity |-> <<20>>, windSpeed |-> <<12>>, visibility |-> <<0>>]),
     ObjectOf([temperature |-> <<35>>, humidity |-> <<0>>, windSpeed |-> <<0>>, visibility |-> <<12>>]),
     ObjectOf([temperature |-> <<31>>, humidity |-> <<29>>, windSpeed |-> <<20>>, visibility |-> <<10>>])}

RiskInputs ==
    {[op |-> "risk",
      airQuality |-> ObjectOf([pollutants |-> <<p>>, aqi |-> q]),
      weather |-> [current |-> c],
      industry |-> i] :
        p \in RiskPollutants, q \in AqiObjects, c \in CurrentConditions, i \in Industries}

ForecastPollutants ==
    {ObjectOf([pm25 |-> a, pm10 |-> b, no2 |-> c, so2 |-> e]) :
        a \in Opt({50, 156}), b \in Opt({50, 245}), c \in Opt({62}), e \in Opt({18})}

ForecastAqiObjects ==
    {<<>>} \cup {<<[value |-> v, category |-> getAQICategory(v)]>> :
                    v \in {0, 100, 160, 198, 250, 500}}

WeatherForecasts ==
    {ObjectOf([trends |-> <<>>]),
     [trends |-> [windTrend |-> "decreasing"]],
     [trends |-> [windTrend |-> "stable"]]}

ForecastInputs ==
    {[op |-> "forecast",
      airQuality |-> ObjectOf([pollutants |-> <<p>>, aqi |-> q]),
      weather |-> w,
      industry |-> i] :
        p \in ForecastPollutants, q \in ForecastAqiObjects,
        w \in WeatherForecasts, i \in Industries}

NotCalled == [status |-> "none"]

ScoreInit ==
    /\ scoreIn \in RiskInputs \cup ForecastInputs
    /\ riskAnalysis = NotCalled
    /\ forecast = NotCalled

ScoreIdle ==
    /\ scoreIn = [op |-> "none"]
    /\ riskAnalysis = NotCalled
    /\ forecast = NotCalled

CalculateOverallRisk ==
    /\ scoreIn.op = "risk"
    /\ riskAnalysis.status = "none"
    /\ riskAnalysis' = calculateOverallRisk(scoreIn.airQuality, scoreIn.weather, scoreIn.industry)
    /\ UNCHANGED <<scoreIn, forecast>>
    /\ ScoreFrame

GenerateForecast ==
    /\ scoreIn.op = "forecast"
    /\ forecast.status = "none"
    /\ forecast' = generateForecast(scoreIn.airQuality, scoreIn.weather, scoreIn.industry)
    /\ UNCHANGED <<scoreIn, riskAnalysis>>
    /\ ScoreFrame

-----------------------------------------------------------------------------
(* TTL cache (lib/cache).  The Map is a function whose domain is the set   *)
(* of keys that have an entry.                                             *)

MaxTime == 5
MaxTtl == 2

CacheKeys == {"env:Delhi:Mining", "env:Pune:Mining"}
CacheValues == {"payloadA", "payloadB"}
Ttls == 0..MaxTtl

EmptyMap == [k \in {} |-> 0]

\* Map.prototype.set / delete on the function representation.
MapSet(m, k, e) == [x \in DOMAIN m \cup {k} |-> IF x = k THEN e ELSE m[x]]
MapDelete(m, k) == [x \in DOMAIN m \ {k} |-> m[x]]

\* set(key, value, ttl): expires = Date.now() + ttl
CacheSet(m, k, v, ttl, t) == MapSet(m, k, [value |-> v, expires |-> t + ttl])

\* get(key): the returned value, <<>> standing for null.
CacheGetValueNoExpiry(m, k, t) ==
    IF k \notin DOMAIN m THEN <<>> ELSE <<m[k].value>>

CacheGetValue(m, k, t) ==
    IF k \notin DOMAIN m THEN <<>>
    ELSE IF t > m[k].expires THEN <<>>
    ELSE <<m[k].value>>

\* get(key): the Map after the call (an expired entry is deleted).
CacheGetStoreKeepsExpired(m, k, t) == m

CacheGetStore(m, k, t) ==
    IF k \in DOMAIN m /\ t > m[k].expires THEN MapDelete(m, k) ELSE m

CacheInit ==
    /\ cache = EmptyMap
    /\ now = 0
    /\ ret = [op |-> "none"]
    /\ written = EmptyMap

CacheIdle == CacheInit

Set(k, v, ttl) ==
    /\ cache' = CacheSet(cache, k, v, ttl, now)
    /\ ret' = [op |-> "set", key |-> k]
    /\ written' = MapSet(written, k, [value |-> v, at |-> now, ttl |-> ttl])
    /\ UNCHANGED now
    /\ CacheFrame

Get(k) ==
    /\ cache' = CacheGetStore(cache, k, now)
    /\ ret' = [op |-> "get", key |-> k, value |-> CacheGetValue(cache, k, now), at |-> now]
    /\ UNCHANGED <<now, written>>
    /\ CacheFrame

Del(k) ==
    /\ cache' = MapDelete(cache, k)
    /\ ret' = [op |-> "del", key |-> k]
    /\ written' = MapDelete(written, k)
    /\ UNCHANGED now
    /\ CacheFrame

Clear ==
    /\ cache' = EmptyMap
    /\ ret' = [op |-> "clear"]
    /\ written' = EmptyMap
    /\ UNCHANGED now
    /\ CacheFrame

\* The clock advances between calls.
Tick ==
    /\ now < MaxTime
    /\ now' = now + 1
    /\ UNCHANGED <<cache, ret, written>>
    /\ CacheFrame

-----------------------------------------------------------------------------
(* Data-source calls: the city and the provider's behaviour are drawn by   *)
(* Init, the call is applied to them.                                      *)

Cities == {"Delhi", "Mumbai", "Atlantis"}

VariationFactors == {90, 109}
WeatherVariationFactors == {95, 104}

LatestResults ==
    {<<>>,
     <<[value |-> 7]>>,
     <<[name |-> "pm25", value |-> 40]>>,
     <<[name |-> "PM25", value |-> 20], [name |-> "NO2", value |-> 30], [name |-> "pm25", value |-> 200]>>,
     <<[name |-> "temperature", value |-> 25]>>}

AirQualityProviders ==
    [key : BOOLEAN,
     loc : {"hangs", "throws", "notOk", "badJson", "noStation", "station"},
     latest : {"hangs", "throws", "notOk", "badJson", "malformed", "ok"},
     results : LatestResults]

WeatherBodies ==
    {[temp |-> 35, humidity |-> 20, windSpeed |-> 33, visibility |-> 0],
     [temp |-> 12, humidity |-> 90, windSpeed |-> 0, visibility |-> 2400]}

WeatherProviders ==
    [key : BOOLEAN,
     response : {"hangs", "throws", "notOk", "badJson", "malformed", "ok"},
     data : WeatherBodies]

ForecastBodies ==
    {<<>>,
     <<[windSpeed |-> 20], [windSpeed |-> 14]>>,
     <<[windSpeed |-> 10], [windSpeed |-> 12], [windSpeed |-> 15]>>}

ForecastProviders ==
    [key : BOOLEAN,
     response : {"hangs", "throws", "notOk", "badJson", "malformed", "ok"},
     data : ForecastBodies]

SourceCalls ==
    [fn : {"getAirQuality"}, city : Cities, up : AirQualityProviders,
     variation : [PollutantKeys -> VariationFactors]]
    \cup [fn : {"getCurrentWeather"}, city : Cities, up : WeatherProviders,
          variation : WeatherVariationFactors]
    \cup [fn : {"getWeatherForecast"}, city : Cities, up : ForecastProviders]

SourceInit ==
    /\ srcCall \in SourceCalls
    /\ srcResult = [settled |-> "none"]

SourceIdle ==
    /\ srcCall = [fn |-> "none"]
    /\ srcResult = [settled |-> "none"]

CallGetAirQuality ==
    /\ srcCall.fn = "getAirQuality"
    /\ srcResult.settled = "none"
    /\ srcResult' = getAirQuality(srcCall.city, srcCall.up, srcCall.variation)
    /\ UNCHANGED srcCall
    /\ SourceFrame

CallGetCurrentWeather ==
    /\ srcCall.fn = "getCurrentWeather"
    /\ srcResult.settled = "none"
    /\ srcResult' = getCurrentWeather(srcCall.city, srcCall.up, srcCall.variation)
    /\ UNCHANGED srcCall
    /\ SourceFrame

CallGetWeatherForecast ==
    /\ srcCall.fn = "getWeatherForecast"
    /\ srcResult.settled = "none"
    /\ srcResult' = getWeatherForecast(srcCall.city, srcCall.up)
    /\ UNCHANGED srcCall
    /\ SourceFrame

-----------------------------------------------------------------------------
(* Request handlers GET /environmental-data and GET /forecast              *)
(* (routes/api.js).  A handler runs from one await to the next in one      *)
(* step.  Query strings are sequences of tokens, so that the template      *)
(* strings that build cache keys are concatenations.                       *)

ENV_PAYLOAD_TTL == 3
FORECAST_PAYLOAD_TTL == 5
AI_CONDITIONS_TTL == 10
AI_FORECAST_TTL == 20

\* One handler run at a time; a slot takes the next request once it answered.
Requests == {"r1", "r2"}

\* The slot used when requests come one at a time.
Sequential == {"r1"}

ReqCities == {<<"Delhi">>}
ReqIndustries == {<<"Mining">>, <<"constructor">>}

\* The string a token sequence spells, for the names the tables know.
Text(tokens) == IF Len(tokens) = 1 THEN tokens[1] ELSE "(composite)"

\* `${a}:${b}:...` over token sequences.
RECURSIVE Template(_)
Template(parts) ==
    IF Len(parts) = 0 THEN <<>>
    ELSE IF Len(parts) = 1 THEN parts[1]
    ELSE parts[1] \o <<":">> \o Template(Tail(parts))

ReqAirQualityProviders ==
    {[key |-> FALSE, loc |-> "station", latest |-> "ok", results |-> <<>>],
     [key |-> TRUE, loc |-> "station", latest |-> "ok",
      results |-> <<[name |-> "pm25", value |-> 40]>>],
     [key |-> TRUE, loc |-> "hangs", latest |-> "ok", results |-> <<>>]}

ReqWeatherProviders ==
    {[key |-> TRUE, response |-> "ok"],
     [key |-> TRUE, response |-> "hangs"]}

ReqAiBehaviours ==
    {[stages |-> <<"absent", "finds", "fails">>, generate |-> "ok",
      text |-> [fenced |-> TRUE, body |-> "object"]],
     [stages |-> <<"absent", "finds", "fails">>, generate |-> "ok",
      text |-> [fenced |-> FALSE, body |-> "prose"]],
     [stages |-> <<"absent", "finds", "fails">>, generate |-> "throws",
      text |-> [fenced |-> FALSE, body |-> "prose"]],
     [stages |-> <<"absent", "fails", "fails">>, generate |-> "ok",
      text |-> [fenced |-> FALSE, body |-> "prose"]],
     [stages |-> <<"absent", "finds", "fails">>, generate |-> "hangs",
      text |-> [fenced |-> FALSE, body |-> "prose"]]}

NoVariation == [k \in PollutantKeys |-> 100]

\* What the weather provider of a request sends when it answers.
WeatherUp(kind, up) ==
    IF kind = "env"
    THEN [key |-> up.key, response |-> up.response,
          data |-> [temp |-> 35, humidity |-> 20, windSpeed |-> 33, visibility |-> 0]]
    ELSE [key |-> up.key, response |-> up.response,
          data |-> <<[windSpeed |-> 20], [windSpeed |-> 14]>>]

\* The promise returned by the weather call of the handler of `kind`.
WeatherCall(kind, city, up) ==
    IF kind = "env" THEN getCurrentWeather(Text(city), WeatherUp(kind, up), 100)
    ELSE getWeatherForecast(Text(city), WeatherUp(kind, up))

\* A value is truthy unless it is null (<<>>) or the empty string.
TruthyNever(v) == FALSE

Truthy(v) == v # <<>> /\ v[1] # [kind |-> "ai", text |-> [fenced |-> FALSE, body |-> "empty"]]

\* getDefaultConditionsInterpretation: the templated sentence, by its four holes.
getDefaultConditionsInterpretation(weather, analysis, industry) ==
    [kind |-> "default",
     industry |-> industry,
     aqi |-> analysis.overallRisk.aqi,
     level |-> analysis.overallRisk.level,
     windSpeed |-> weather.current.windSpeed]

\* interpretConditions once its cache lookup has missed: the model is
\* resolved and asked, the text cached and returned; any throw is caught.
\* Returns the settlement, the value, the cache and the model name afterwards.
interpretConditionsNoCatch(client, m, t, cached, beh, key, weather, analysis, industry) ==
    LET rm == resolveModel(cached, beh.stages)
        text == [kind |-> "ai", text |-> beh.text]
    IN  IF ~client
        THEN [settled |-> "resolved",
              value |-> getDefaultConditionsInterpretation(weather, analysis, industry),
              cache |-> m, cachedModelName |-> cached]
        ELSE IF rm.outcome = "hangs" \/ (rm.outcome = "model" /\ beh.generate = "hangs")
        THEN [settled |-> "pending", cache |-> m, cachedModelName |-> rm.cachedModelName]
        ELSE IF rm.outcome = "throws" \/ beh.generate = "throws"
        THEN [settled |-> "rejected", cache |-> m, cachedModelName |-> rm.cachedModelName]
        ELSE [settled |-> "resolved", value |-> text,
              cache |-> CacheSet(m, key, text, AI_CONDITIONS_TTL, t),
              cachedModelName |-> rm.cachedModelName]

interpretConditions(client, m, t, cached, beh, key, weather, analysis, industry) ==
    LET rm == resolveModel(cached, beh.stages)
        text == [kind |-> "ai", text |-> beh.text]
    IN  IF ~client
        THEN [settled |-> "resolved",
              value |-> getDefaultConditionsInterpretation(weather, analysis, industry),
              cache |-> m, cachedModelName |-> cached]
        ELSE IF rm.outcome = "hangs" \/ (rm.outcome = "model" /\ beh.generate = "hangs")
        THEN [settled |-> "pending", cache |-> m, cachedModelName |-> rm.cachedModelName]
        ELSE IF rm.outcome = "throws" \/ beh.generate = "throws"
        THEN [settled |-> "resolved",
              value |-> getDefaultConditionsInterpretation(weather, analysis, industry),
              cache |-> m, cachedModelName |-> rm.cachedModelName]
        ELSE [settled |-> "resolved", value |-> text,
              cache |-> CacheSet(m, key, text, AI_CONDITIONS_TTL, t),
              cachedModelName |-> rm.cachedModelName]

IdleRequest == [pc |-> "idle"]

ReqInit ==
    /\ geminiKey \in BOOLEAN
    /\ genAI = FALSE
    /\ cachedModelName = <<>>
    /\ req = [r \in Requests |-> IdleRequest]

ReqIdle == req = [r \in Requests |-> IdleRequest]

CacheKeyOfCityOnly(q) ==
    Template(<<(IF q.kind = "env" THEN <<"env">> ELSE <<"forecast">>), q.city>>)

CacheKeyOf(q) ==
    Template(<<(IF q.kind = "env" THEN <<"env">> ELSE <<"forecast">>), q.city, q.industry>>)

\* The handler's tail: build the payload, cache it, send it.
Respond(q, aiInsights, m, t) ==
    LET payload == IF q.kind = "env"
                   THEN [success |-> TRUE, city |-> q.city, industry |-> q.industry,
                         data |-> [airQuality |-> q.aq, weather |-> q.wx,
                                   riskAnalysis |-> q.risk, aiInsights |-> aiInsights]]
                   ELSE [success |-> TRUE, city |-> q.city, industry |-> q.industry,
                         forecast |-> q.risk, aiInsights |-> aiInsights]
        ttl == IF q.kind = "env" THEN ENV_PAYLOAD_TTL ELSE FORECAST_PAYLOAD_TTL
    IN  [cache |-> CacheSet(m, CacheKeyOf(q), payload, ttl, t),
         response |-> [status |-> 200, xcache |-> "MISS", body |-> payload]]

Failure500 == [status |-> 500, xcache |-> "none", body |-> [success |-> FALSE]]

\* A request arrives: the payload cache is read; on a miss both upstream
\* calls are issued before the handler awaits them.
Receive(r, kind, city, industry, aqUp, wxUp) ==
    /\ req[r].pc \in {"idle", "done"}
    /\ LET q == [kind |-> kind, city |-> city, industry |-> industry]
           cached == CacheGetValue(cache, CacheKeyOf(q), now)
       IN  /\ cache' = CacheGetStore(cache, CacheKeyOf(q), now)
           /\ IF Truthy(cached)
              THEN req' = [req EXCEPT ![r] =
                             [pc |-> "done", kind |-> kind, city |-> city, industry |-> industry,
                              risk |-> NotCalled, aiPath |-> "none",
                              response |-> [status |-> 200, xcache |-> "HIT", body |-> cached[1]]]]
              ELSE req' = [req EXCEPT ![r] =
                             [pc |-> "fetching", kind |-> kind, city |-> city, industry |-> industry,
                              aqUp |-> aqUp, wxUp |-> wxUp,
                              aq |-> Pending, wx |-> Pending,
                              risk |-> NotCalled, aiPath |-> "none"]]
    /\ UNCHANGED geminiVars
    /\ ReqFrame

\* The air-quality promise settles.
AirQualitySettles(r) ==
    /\ req[r].pc = "fetching"
    /\ req[r].aq.settled = "pending"
    /\ \E res \in {getAirQuality(Text(req[r].city), req[r].aqUp, NoVariation)} :
           /\ res.settled # "pending"
           /\ req' = [req EXCEPT ![r].aq = res]
    /\ UNCHANGED <<cache, geminiVars>>
    /\ ReqFrame

\* The weather promise settles.
WeatherSettles(r) ==
    /\ req[r].pc = "fetching"
    /\ req[r].wx.settled = "pending"
    /\ \E res \in {WeatherCall(req[r].kind, req[r].city, req[r].wxUp)} :
           /\ res.settled # "pending"
           /\ req' = [req EXCEPT ![r].wx = res]
    /\ UNCHANGED <<cache, geminiVars>>
    /\ ReqFrame

\* The handler's cache key of the narrative of a scored request.
NarrativeKeyOf(q) ==
    IF q.kind = "env"
    THEN Template(<<<<"ai">>, <<"conditions">>, q.city, q.industry,
                    <<ToString(q.risk.overallRisk.aqi)>>>>)
    ELSE Template(<<<<"ai">>, <<"forecast">>, q.city, q.industry, <<"">>>>)

\* The cache key interpretConditions uses itself.
ConditionsKeyOf(q) ==
    Template(<<<<"gemini">>, <<"conditions">>, q.city, q.industry,
               <<ToString(q.risk.overallRisk.aqi)>>>>)

\* The scoring call of the handler of q.
ScoreOf(q) ==
    IF q.aq.settled = "rejected" \/ q.wx.settled = "rejected" THEN NotCalled
    ELSE IF q.kind = "env" THEN calculateOverallRisk(q.aq, q.wx, Text(q.industry))
    ELSE generateForecast(q.aq, q.wx, Text(q.industry))

\* The request is answered: the slot holds the response.
Answered(r, q, path, response) ==
    req' = [req EXCEPT ![r] = [q EXCEPT !.pc = "done", !.aiPath = path]
                              @@ [response |-> response]]

\* Promise.all has settled: score, then either answer or call the narrative
\* service and await it.  (Values are bound by \E over a singleton.)
Score(r, beh) ==
    /\ req[r].pc = "fetching"
    /\ req[r].aq.settled # "pending"
    /\ req[r].wx.settled # "pending"
    /\ \E q \in {[req[r] EXCEPT !.risk = ScoreOf(req[r])]} :
         IF q.risk.status # "ok"
         THEN /\ Answered(r, q, "none", Failure500)
              /\ UNCHANGED <<cache, genAI, cachedModelName>>
         ELSE IF ~geminiKey
         THEN \E out \in {Respond(q, <<>>, cache, now)} :
                /\ cache' = out.cache
                /\ Answered(r, q, "none", out.response)
                /\ UNCHANGED <<genAI, cachedModelName>>
         ELSE \E gkey \in {NarrativeKeyOf(q)} :
              \E aiCached \in {CacheGetValue(cache, gkey, now)},
                 m1 \in {CacheGetStore(cache, gkey, now)} :
                IF Truthy(aiCached)
                THEN \E out \in {Respond(q, aiCached, m1, now)} :
                       /\ cache' = out.cache
                       /\ Answered(r, q, "handlerCache", out.response)
                       /\ UNCHANGED <<genAI, cachedModelName>>
                ELSE IF q.kind = "forecast"
                THEN /\ genAI' = getClient(genAI, geminiKey)
                     /\ cache' = m1
                     /\ req' = [req EXCEPT ![r] =
                                  [q EXCEPT !.pc = "narrative", !.aiPath = "called"]
                                  @@ [aiBeh |-> beh]]
                     /\ UNCHANGED cachedModelName
                ELSE \E key2 \in {ConditionsKeyOf(q)} :
                     \E cached2 \in {CacheGetValue(m1, key2, now)},
                        m2 \in {CacheGetStore(m1, key2, now)} :
                       IF Truthy(cached2)
                       THEN \E out \in {Respond(q, cached2,
                                          CacheSet(m2, gkey, cached2[1], AI_CONDITIONS_TTL, now),
                                          now)} :
                              /\ genAI' = getClient(genAI, geminiKey)
                              /\ cache' = out.cache
                              /\ Answered(r, q, "serviceCache", out.response)
                              /\ UNCHANGED cachedModelName
                       ELSE /\ genAI' = getClient(genAI, geminiKey)
                            /\ cache' = m2
                            /\ req' = [req EXCEPT ![r] =
                                         [q EXCEPT !.pc = "narrative", !.aiPath = "called"]
                                         @@ [aiBeh |-> beh]]
                            /\ UNCHANGED cachedModelName
    /\ UNCHANGED geminiKey
    /\ ReqFrame

\* The promise of the narrative call of q.
NarrativeOf(q) ==
    IF q.kind = "env"
    THEN interpretConditions(genAI, cache, now, cachedModelName, q.aiBeh,
                             ConditionsKeyOf(q), q.wx, q.risk, q.industry)
    ELSE interpretForecast(genAI, geminiKey, cachedModelName, q.aiBeh) @@ [cache |-> cache]

\* The narrative call settles: the handler caches the insight, builds and
\* caches the payload and answers.  A rejection reaches the handler's catch.
NarrativeSettles(r) ==
    /\ req[r].pc = "narrative"
    /\ \E q \in {req[r]} :
       \E res \in {NarrativeOf(q)} :
         /\ res.settled # "pending"
         /\ cachedModelName' = res.cachedModelName
         /\ IF res.settled = "rejected"
            THEN /\ cache' = res.cache
                 /\ Answered(r, q, "called", Failure500)
            ELSE \E out \in {Respond(q, <<res.value>>,
                               CacheSet(res.cache, NarrativeKeyOf(q), res.value,
                                        (IF q.kind = "env" THEN AI_CONDITIONS_TTL
                                                           ELSE AI_FORECAST_TTL), now),
                               now)} :
                   /\ cache' = out.cache
                   /\ Answered(r, q, "called", out.response)
    /\ UNCHANGED <<geminiKey, genAI>>
    /\ ReqFrame

-----------------------------------------------------------------------------
(* The serverless functions api/environment.js and api/risk.js with their  *)
(* own services (api/_services/openaq.js, openweather.js, gemini.js).      *)

\* calculateAQI(pm25) of the serverless openaq service
calculateAQIServerless(pm25) ==
    IF pm25 <= 30 THEN [value |-> 50, category |-> "Good"]
    ELSE IF pm25 <= 60 THEN [value |-> 100, category |-> "Moderate"]
    ELSE IF pm25 <= 90 THEN [value |-> 200, category |-> "Poor"]
    ELSE [value |-> 300, category |-> "Severe"]

\* demo(city) of the serverless openaq service
demoAirQuality(city) ==
    [settled |-> "resolved", city |-> city, isDemo |-> <<TRUE>>,
     pollutants |-> [k \in {"pm25"} |-> 75],
     aqi |-> calculateAQIServerless(75)]

\* normalize(data, city): no isDemo field; pm25 || 80 feeds the AQI.
normalize(results, city) ==
    LET pollutants == Measurements(results)
        pm25 == ValueOr(pollutants, "pm25", 80)
    IN  [settled |-> "resolved", city |-> city, isDemo |-> <<>>,
         pollutants |-> pollutants,
         aqi |-> calculateAQIServerless(pm25)]

\* getAirQuality(city) of the serverless openaq service; `up` as for the
\* Express service.  One catch around everything returns demo(city).
getAirQualityServerless(city, up) ==
    IF ~up.key THEN demoAirQuality(city)
    ELSE IF up.loc = "hangs" THEN Pending
    ELSE IF up.loc \in {"throws", "badJson", "notOk", "noStation"} THEN demoAirQuality(city)
    ELSE IF up.latest = "hangs" THEN Pending
    ELSE IF up.latest \in {"throws", "badJson", "malformed", "notOk"} THEN demoAirQuality(city)
    ELSE normalize(up.results, city)

\* demo(city) of the serverless openweather service
demoWeather(city) ==
    [settled |-> "resolved", city |-> city, isDemo |-> <<TRUE>>,
     current |-> [temperature |-> 28, humidity |-> 60, windSpeed |-> 8]]

\* format(data, city): wind speed from m/s to km/h, rounded
format(data, city) ==
    [settled |-> "resolved", city |-> city, isDemo |-> <<>>,
     current |-> [temperature |-> data.temp, humidity |-> data.humidity,
                  windSpeed |-> MathRound(36 * data.windSpeed, 10)]]

\* getCurrentWeather(city) of the serverless openweather service
getCurrentWeatherServerless(city, up) ==
    IF ~up.key THEN demoWeather(city)
    ELSE IF up.response = "hangs" THEN Pending
    ELSE IF up.response \in {"throws", "badJson", "malformed", "notOk"} THEN demoWeather(city)
    ELSE format(up.data, city)

\* calculateRisk(airQuality, weather) of api/risk.js
calculateRisk(airQuality, weather) ==
    LET aqi == ValueOr(airQuality.aqi, "value", 0)
    IN  [aqi |-> aqi,
         level |-> IF aqi > 300 THEN "Severe"
                   ELSE IF aqi > 200 THEN "Very Poor"
                   ELSE IF aqi > 100 THEN "Moderate" ELSE "Low",
         factors |-> [wind |-> weather.current.windSpeed,
                      humidity |-> weather.current.humidity]]

\* defaultConditions(...): the sentence, by its two holes.
defaultConditions(analysis, industry) ==
    [kind |-> "default", level |-> analysis.overallRisk.level, industry |-> industry]

\* interpretConditions of the serverless gemini service (no cache).
interpretConditionsServerless(g, key, cached, beh, analysis, industry) ==
    LET client == getClient(g, key)
        rm == resolveModelServerless(cached, beh.stages)
    IN  IF ~client
        THEN [settled |-> "resolved", value |-> defaultConditions(analysis, industry),
              genAI |-> client, cachedModelName |-> cached]
        ELSE IF rm.outcome = "hangs" \/ (rm.outcome = "model" /\ beh.generate = "hangs")
        THEN [settled |-> "pending", genAI |-> client, cachedModelName |-> rm.cachedModelName]
        ELSE IF rm.outcome = "throws" \/ beh.generate = "throws"
        THEN [settled |-> "resolved", value |-> defaultConditions(analysis, industry),
              genAI |-> client, cachedModelName |-> rm.cachedModelName]
        ELSE [settled |-> "resolved", value |-> [kind |-> "ai", text |-> beh.text],
              genAI |-> client, cachedModelName |-> rm.cachedModelName]

SlCities == {"Delhi"}
SlIndustries == {"Urban", "Mining"}

SlAirQualityProviders ==
    {[key |-> FALSE, loc |-> "station", latest |-> "ok", results |-> <<>>],
     [key |-> TRUE, loc |-> "hangs", latest |-> "ok", results |-> <<>>],
     [key |-> TRUE, loc |-> "station", latest |-> "throws", results |-> <<>>],
     [key |-> TRUE, loc |-> "station", latest |-> "ok", results |-> <<>>],
     [key |-> TRUE, loc |-> "station", latest |-> "ok",
      results |-> <<[name |-> "PM25", value |-> 20]>>]}

SlWeatherProviders ==
    {[key |-> FALSE, response |-> "ok"],
     [key |-> TRUE, response |-> "hangs"],
     [key |-> TRUE, response |-> "ok",
      data |-> [temp |-> 35, humidity |-> 20, windSpeed |-> 3]]}

SlIdle == sl = [pc |-> "idle"]

SlInit ==
    /\ geminiKey \in BOOLEAN
    /\ genAI = FALSE
    /\ cachedModelName = <<>>
    /\ sl = [pc |-> "idle"]

\* An invocation starts: the handler calls getAirQuality and awaits it.
SlInvoke(fn, city, industry, aqUp) ==
    /\ sl.pc \in {"idle", "done"}
    /\ sl' = [pc |-> "awaitAirQuality", fn |-> fn, city |-> city, industry |-> industry,
              aqUp |-> aqUp, issued |-> <<"airQuality">>, settled |-> <<>>]
    /\ UNCHANGED <<genAI, cachedModelName>>
    /\ SlFrame

\* The air-quality promise settles; only now is getCurrentWeather called.
SlAirQualitySettles(wxUp) ==
    /\ sl.pc = "awaitAirQuality"
    /\ \E res \in {getAirQualityServerless(sl.city, sl.aqUp)} :
         /\ res.settled # "pending"
         /\ sl' = [sl EXCEPT !.pc = "awaitWeather",
                             !.issued = Append(@, "weather"),
                             !.settled = Append(@, "airQuality")]
                  @@ [airQuality |-> res, wxUp |-> wxUp]
    /\ UNCHANGED <<genAI, cachedModelName>>
    /\ SlFrame

\* The weather promise settles.  api/risk.js scores and answers;
\* api/environment.js builds riskAnalysis and calls interpretConditions.
SlWeatherSettles(beh) ==
    /\ sl.pc = "awaitWeather"
    /\ \E res \in {getCurrentWeatherServerless(sl.city, sl.wxUp)} :
         /\ res.settled # "pending"
         /\ IF sl.fn = "risk"
            THEN /\ sl' = [sl EXCEPT !.pc = "done", !.settled = Append(@, "weather")]
                          @@ [weather |-> res,
                              response |-> [status |-> 200, city |-> sl.city,
                                            risk |-> calculateRisk(sl.airQuality, res)]]
                 /\ UNCHANGED genAI
            ELSE /\ sl' = [sl EXCEPT !.pc = "awaitNarrative",
                                     !.issued = Append(@, "narrative"),
                                     !.settled = Append(@, "weather")]
                          @@ [weather |-> res, aiBeh |-> beh,
                              riskAnalysis |->
                                 [overallRisk |-> [aqi |-> sl.airQuality.aqi.value,
                                                   level |-> sl.airQuality.aqi.category]]]
                 /\ genAI' = getClient(genAI, geminiKey)
    /\ UNCHANGED cachedModelName
    /\ SlFrame

\* The narrative promise settles and api/environment.js answers.
SlNarrativeSettles ==
    /\ sl.pc = "awaitNarrative"
    /\ \E res \in {interpretConditionsServerless(genAI, geminiKey, cachedModelName,
                                                 sl.aiBeh, sl.riskAnalysis, sl.industry)} :
         /\ res.settled # "pending"
         /\ cachedModelName' = res.cachedModelName
         /\ sl' = [sl EXCEPT !.pc = "done", !.settled = Append(@, "narrative")]
                  @@ [response |-> [status |-> 200, city |-> sl.city,
                                    airQuality |-> sl.airQuality, weather |-> sl.weather,
                                    interpretation |-> res.value]]
    /\ UNCHANGED genAI
    /\ SlFrame

-----------------------------------------------------------------------------
(* Alert explanation: POST /alert-explain and the gemini service's          *)
(* explainAlert.                                                            *)

ALERT_TTL == 60

\* What the gemini service module exports.
GeminiExports == {"interpretConditions", "interpretForecast", "customInterpretation"}

AlertInputs ==
    [industry : {"Mining"}, aqi : {<<>>, <<250>>}, pm25 : {<<156>>}, windSpeed : {<<8>>},
     persistence : {<<"Very Long">>, <<"Long">>}]

AlertAiBehaviours == {b \in ReqAiBehaviours : b.text.body = "prose"}

\* `${v}` of a request-body field: undefined prints as "undefined".
Interpolated(v) == IF v = <<>> THEN "undefined" ELSE ToString(v[1])

toLowerCase(str) ==
    IF str = "Very Long" THEN "very long"
    ELSE IF str = "Long" THEN "long"
    ELSE str

\* fallbackExplainAlert: the three sentences, by the holes of the template.
fallbackExplainAlert(in) ==
    [kind |-> "fallback",
     aqiText |-> IF in.aqi # <<>> THEN <<"AQI", in.aqi[1]>> ELSE <<"AQI N/A">>,
     pmText |-> IF in.pm25 # <<>> THEN <<"PM2.5", in.pm25[1]>> ELSE <<"PM2.5 N/A">>,
     horizon |-> IF toLowerCase(IF in.persistence = <<>> THEN "" ELSE in.persistence[1]) = "very long"
                 THEN "long-term" ELSE "short-term"]

AlertKeyOf(in) ==
    Template(<<<<"gemini">>, <<"alert">>, <<in.industry>>, <<Interpolated(in.aqi)>>,
               <<Interpolated(in.pm25)>>, <<Interpolated(in.windSpeed)>>,
               <<IF in.persistence = <<>> THEN "undefined" ELSE in.persistence[1]>>>>)

\* explainAlert(in): the settlement, the value, the cache, the client and
\* the model name afterwards.
explainAlert(g, key, m, t, cachedName, beh, in) ==
    LET client == getClient(g, key)
        k == AlertKeyOf(in)
        hit == CacheGetValue(m, k, t)
        rm == resolveModel(cachedName, beh.stages)
        text == [kind |-> "ai", text |-> beh.text]
        fallback == fallbackExplainAlert(in)
    IN  IF Truthy(hit)
        THEN [settled |-> "resolved", value |-> hit[1], cache |-> CacheGetStore(m, k, t),
              genAI |-> client, cachedModelName |-> cachedName]
        ELSE IF ~client
        THEN [settled |-> "resolved", value |-> fallback,
              cache |-> CacheSet(m, k, fallback, ALERT_TTL, t),
              genAI |-> client, cachedModelName |-> cachedName]
        ELSE IF rm.outcome = "hangs" \/ (rm.outcome = "model" /\ beh.generate = "hangs")
        THEN [settled |-> "pending", cache |-> CacheGetStore(m, k, t),
              genAI |-> client, cachedModelName |-> rm.cachedModelName]
        ELSE IF rm.outcome = "throws" \/ beh.generate = "throws"
        THEN [settled |-> "resolved", value |-> fallback,
              cache |-> CacheSet(m, k, fallback, ALERT_TTL, t),
              genAI |-> client, cachedModelName |-> rm.cachedModelName]
        ELSE [settled |-> "resolved", value |-> text,
              cache |-> CacheSet(m, k, text, ALERT_TTL, t),
              genAI |-> client, cachedModelName |-> rm.cachedModelName]

AlertIdle == alert = [pc |-> "idle"]

AlertInit ==
    /\ geminiKey \in BOOLEAN
    /\ genAI = FALSE
    /\ cachedModelName = <<>>
    /\ alert = [pc |-> "idle"]

\* The service function is called directly.
CallExplainAlert(in, beh) ==
    /\ alert.pc \in {"idle", "done"}
    /\ \E res \in {explainAlert(genAI, geminiKey, cache, now, cachedModelName, beh, in)} :
          /\ alert' = [pc |-> "done", op |-> "explainAlert", in |-> in, beh |-> beh,
                       result |-> [f \in DOMAIN res \ {"cache", "genAI", "cachedModelName"}
                                     |-> res[f]]]
          /\ cache' = res.cache
          /\ genAI' = res.genAI
          /\ cachedModelName' = res.cachedModelName
    /\ AlertFrame

\* POST /alert-explain: the handler, its call of the service included.
PostAlertExplain(in, beh) ==
    /\ alert.pc \in {"idle", "done"}
    /\ IF ~geminiKey
       THEN /\ alert' = [pc |-> "done", op |-> "POST", in |-> in, beh |-> beh,
                         response |-> [status |-> 200, success |-> TRUE,
                                       explanation |-> "AI explanation unavailable."]]
            /\ UNCHANGED <<cache, genAI, cachedModelName>>
       ELSE IF "explainAlert" \notin GeminiExports
       THEN /\ alert' = [pc |-> "done", op |-> "POST", in |-> in, beh |-> beh,
                         response |-> [status |-> 500, success |-> FALSE,
                                       explanation |-> "AI explanation unavailable."]]
            /\ UNCHANGED <<cache, genAI, cachedModelName>>
       ELSE \E res \in {explainAlert(genAI, geminiKey, cache, now, cachedModelName, beh, in)} :
              /\ alert' = IF res.settled = "pending"
                          THEN [pc |-> "done", op |-> "POST", in |-> in, beh |-> beh]
                          ELSE [pc |-> "done", op |-> "POST", in |-> in, beh |-> beh,
                                response |-> [status |-> 200, success |-> TRUE,
                                              explanation |-> res.value]]
              /\ cache' = res.cache
              /\ genAI' = res.genAI
              /\ cachedModelName' = res.cachedModelName
    /\ AlertFrame

AlertNext ==
    \/ \E in \in AlertInputs, beh \in AlertAiBehaviours : CallExplainAlert(in, beh)
    \/ \E in \in AlertInputs, beh \in AlertAiBehaviours : PostAlertExplain(in, beh)

-----------------------------------------------------------------------------
(* Accounts and reports: lib/sessions, routes/auth, POST /report and the    *)
(* admin endpoints.  `db` tells whether getDb() yields a database; users    *)
(* live in its `users` collection, reports in `reports` (or, without a      *)
(* database, in the reports file).                                          *)

MaxSessions == 3
MaxReports == 2

Emails == {"alice@x", "bob@x"}

\* Session ids are generated fresh: the n-th created session has id n.
SessionIds == 1..MaxSessions

\* sessions.create(email) on the site state st.
create(st, email) ==
    [st EXCEPT !.created = st.created + 1,
               !.sessions = [x \in DOMAIN st.sessions \cup {st.created + 1} |->
                               IF x = st.created + 1 THEN email ELSE st.sessions[x]]]

\* sessions.destroy(sessionId)
destroy(st, sid) ==
    [st EXCEPT !.sessions = [x \in DOMAIN st.sessions \ {sid} |-> st.sessions[x]]]

\* The admin endpoints' common preamble: the status it answers with, 200
\* standing for "go on".
adminGateNoRole(st, sid) ==
    IF sid \notin DOMAIN st.sessions THEN 401
    ELSE IF ~st.db THEN 503
    ELSE 200

adminGate(st, sid) ==
    IF sid \notin DOMAIN st.sessions THEN 401
    ELSE IF ~st.db THEN 503
    ELSE IF st.sessions[sid] \notin DOMAIN st.users
            \/ st.users[st.sessions[sid]] # "admin" THEN 403
    ELSE 200

NoCall == [op |-> "none"]

SiteIdle ==
    site = [db |-> FALSE, created |-> 0, sessions |-> EmptyMap, users |-> EmptyMap,
            reports |-> EmptyMap, call |-> NoCall]

SiteInit ==
    \E db \in BOOLEAN :
        site = [db |-> db, created |-> 0, sessions |-> EmptyMap, users |-> EmptyMap,
                reports |-> EmptyMap, call |-> NoCall]

\* POST /auth/register.  `role` is the body's optional role field.
Register(email, role) ==
    /\ site.created + (IF site.db THEN 1 ELSE 2) <= MaxSessions
    /\ IF site.db
       THEN IF email \in DOMAIN site.users
            THEN site' = [site EXCEPT !.call = [op |-> "register", status |-> 400]]
            ELSE \E st \in {create([site EXCEPT !.users =
                                       MapSet(site.users, email,
                                              IF role = <<>> THEN "user" ELSE role[1])],
                                    email)} :
                   site' = [st EXCEPT !.call = [op |-> "register", status |-> 200,
                                                sessionId |-> st.created]]
       ELSE \E st \in {create(create(site, email), email)} :
              site' = [st EXCEPT !.call = [op |-> "register", status |-> 200,
                                           sessionId |-> st.created]]
    /\ SiteFrame

\* POST /auth/login.  `match` is the outcome of the password comparison.
Login(email, match) ==
    /\ site.created + (IF site.db THEN 1 ELSE 2) <= MaxSessions
    /\ IF site.db
       THEN IF email \in DOMAIN site.users /\ ~match
            THEN site' = [site EXCEPT !.call = [op |-> "login", status |-> 401]]
            ELSE \E st \in {create([site EXCEPT !.users =
                                       IF email \in DOMAIN site.users THEN site.users
                                       ELSE MapSet(site.users, email, "none")],
                                    email)} :
                   site' = [st EXCEPT !.call = [op |-> "login", status |-> 200,
                                                sessionId |-> st.created]]
       ELSE \E st \in {create(create(site, email), email)} :
              site' = [st EXCEPT !.call = [op |-> "login", status |-> 200,
                                           sessionId |-> st.created]]
    /\ SiteFrame

\* POST /auth/logout
Logout(sid) ==
    /\ site' = [destroy(site, sid) EXCEPT !.call = [op |-> "logout", status |-> 200]]
    /\ SiteFrame

\* POST /report.  `complete` tells whether the required fields are there,
\* `verified` is the body's optional verified field.  Object.assign copies
\* the body's fields over the defaults.
PostReport(complete, verified) ==
    /\ Cardinality(DOMAIN site.reports) < MaxReports
    /\ IF ~complete
       THEN site' = [site EXCEPT !.call = [op |-> "report", status |-> 400]]
       ELSE \E id \in {Cardinality(DOMAIN site.reports) + 1} :
              site' = [site EXCEPT
                         !.reports = MapSet(site.reports, id,
                                            [verified |-> IF verified = <<>> THEN FALSE
                                                          ELSE verified[1],
                                             verifiedBy |-> "nobody"]),
                         !.call = [op |-> "report", status |-> 200, id |-> id]]
    /\ SiteFrame

\* GET /reports with the x-session-id header sid (0: no header).
GetReports(sid) ==
    /\ \E status \in {adminGate(site, sid)} :
          site' = [site EXCEPT !.call =
                     IF status = 200
                     THEN [op |-> "reports", sid |-> sid, status |-> 200,
                           reports |-> <<site.reports>>, before |-> site.reports]
                     ELSE [op |-> "reports", sid |-> sid, status |-> status,
                           reports |-> <<>>, before |-> site.reports]]
    /\ SiteFrame

\* POST /reports/:id/verify with the x-session-id header sid.  updateOne
\* reports modifiedCount 0 for an unknown id and for a report already verified.
VerifyReport(sid, id) ==
    /\ \E status \in {adminGate(site, sid)} :
          IF status # 200
          THEN site' = [site EXCEPT !.call = [op |-> "verify", sid |-> sid, id |-> id,
                                              status |-> status, reports |-> <<>>,
                                              before |-> site.reports]]
          ELSE IF id \notin DOMAIN site.reports \/ site.reports[id].verified
          THEN site' = [site EXCEPT !.call = [op |-> "verify", sid |-> sid, id |-> id,
                                              status |-> 404, reports |-> <<>>,
                                              before |-> site.reports]]
          ELSE site' = [site EXCEPT
                          !.reports[id] = [verified |-> TRUE, verifiedBy |-> "admin"],
                          !.call = [op |-> "verify", sid |-> sid, id |-> id,
                                    status |-> 200, reports |-> <<>>,
                                    before |-> site.reports]]
    /\ SiteFrame

SiteNext ==
    \/ \E email \in Emails, role \in {<<>>, <<"admin">>} : Register(email, role)
    \/ \E email \in Emails, match \in BOOLEAN : Login(email, match)
    \/ \E sid \in SessionIds : Logout(sid)
    \/ \E complete \in BOOLEAN, verified \in {<<>>, <<TRUE>>} : PostReport(complete, verified)
    \/ \E sid \in {0} \cup SessionIds : GetReports(sid)
    \/ \E sid \in {0} \cup SessionIds, id \in 1..(MaxReports + 1) : VerifyReport(sid, id)

-----------------------------------------------------------------------------
(* The browser client: App (selection, authentication, debounce timer) and  *)
(* the Dashboard and Forecast page modules.  Times are in milliseconds.     *)
(* A query is <<city, industry>>.                                           *)

MaxAppTicks == 4

debounceMs == 600

\* The clock's granularity: half the debounce delay.
TickMs == debounceMs \div 2

Pages == {"dashboard", "forecast"}
AppCities == {"Delhi", "Mumbai"}
AppIndustries == {"Generic Industrial Zone", "Textile"}

\* How a load's request and rendering can end: the response reports success
\* and is rendered, the response reports failure, the request throws, or
\* render throws.
Outcomes == {"ok", "failure", "threw", "renderThrew"}

AppIdle == app = [pc |-> "idle"]

\* Dashboard / Forecast before any load.  `inflight` are the requests issued
\* and not yet settled, `shown` is what the page renders, `last` the latest
\* thing that happened to the module.
PageModule == [isLoading |-> FALSE, inflight |-> <<>>, shown |-> <<>>, last |-> "none"]

\* load(city, industry) up to its await.
loadNoGuard(m, q) ==
    [m EXCEPT !.isLoading = TRUE, !.inflight = Append(@, q)]

load(m, q) ==
    IF m.isLoading THEN [m EXCEPT !.last = "dropped"]
    ELSE [m EXCEPT !.isLoading = TRUE, !.inflight = Append(@, q)]

\* load(city, industry) from its await on: try / catch / finally.
settle(m, outcome) ==
    [m EXCEPT !.inflight = Tail(@),
              !.shown = IF outcome = "ok" THEN <<m.inflight[1]>>
                        ELSE IF outcome = "renderThrew" THEN <<<<"partial", "partial">>>>
                        ELSE @,
              !.isLoading = FALSE,
              !.last = outcome]

\* App.loadCurrentPage(): clearTimeout(_loadTimer), setTimeout(..., _debounceMs).
\* `timers` are the due times of the pending timeouts, `_loadTimer` is kept as
\* the set holding the handle's due time (the latest scheduling call was made
\* _debounceMs before it); fired counts the timer callbacks run since that call.
loadCurrentPage(a) ==
    IF ~a.isAuthenticated THEN a
    ELSE [a EXCEPT !.timers = (a.timers \ a.loadTimer) \cup {a.now + debounceMs},
                   !.loadTimer = {a.now + debounceMs},
                   !.fired = 0]

NoAttempt == [delay |-> 0, authenticated |-> FALSE]

\* App.init(): demo mode, then loadCurrentPage().
AppInit ==
    app = loadCurrentPage(
            [now |-> 0, currentPage |-> "dashboard", currentCity |-> "Delhi",
             currentIndustry |-> "Generic Industrial Zone", isAuthenticated |-> TRUE,
             loggingOut |-> FALSE, timers |-> {}, loadTimer |-> {},
             fired |-> 0, attempt |-> NoAttempt, failures |-> FALSE,
             dashboard |-> PageModule, forecast |-> PageModule])

\* The selectors, the navigation and the buttons are inside #app, which
\* showLogin() hides; the login modal is hidden by hideLogin().
AppVisible == app.isAuthenticated

HandleCityChange(city) ==
    /\ AppVisible
    /\ city # app.currentCity
    /\ app' = loadCurrentPage([app EXCEPT !.currentCity = city])
    /\ AppFrame

HandleIndustryChange(industry) ==
    /\ AppVisible
    /\ industry # app.currentIndustry
    /\ app' = loadCurrentPage([app EXCEPT !.currentIndustry = industry])
    /\ AppFrame

\* handleNavigation -> switchPage
HandleNavigation(page) ==
    /\ AppVisible
    /\ page # app.currentPage
    /\ app' = loadCurrentPage([app EXCEPT !.currentPage = page])
    /\ AppFrame

\* handleGoogleLogin -> setAuthenticated
HandleGoogleLogin ==
    /\ ~AppVisible
    /\ app' = loadCurrentPage([app EXCEPT !.isAuthenticated = TRUE])
    /\ AppFrame

\* handleLogout up to its await; one logout request at a time is followed.
HandleLogout ==
    /\ AppVisible
    /\ ~app.loggingOut
    /\ app' = [app EXCEPT !.loggingOut = TRUE]
    /\ AppFrame

\* handleLogout after API.auth.logout() settled, either way.
LogoutSettles ==
    /\ app.loggingOut
    /\ app' = [app EXCEPT !.loggingOut = FALSE, !.isAuthenticated = FALSE]
    /\ AppFrame

\* When loadCurrentPage last scheduled a timer.
LastCall == (CHOOSE due \in app.loadTimer : TRUE) - debounceMs

\* The timeout callback of loadCurrentPage; `attempt` records how long after
\* the latest call it runs and whether the user is authenticated then.
TimerFires(due) ==
    /\ due \in app.timers
    /\ due <= app.now
    /\ app' = [app EXCEPT
                 !.timers = @ \ {due},
                 !.fired = @ + 1,
                 !.attempt = [delay |-> app.now - LastCall,
                              authenticated |-> app.isAuthenticated],
                 !.dashboard = IF app.currentPage = "dashboard"
                               THEN load(@, <<app.currentCity, app.currentIndustry>>)
                               ELSE @,
                 !.forecast = IF app.currentPage = "forecast"
                              THEN load(@, <<app.currentCity, app.currentIndustry>>)
                              ELSE @]
    /\ AppFrame

\* Dashboard.refresh(): the selectors hold the current city and industry.
Refresh ==
    /\ AppVisible
    /\ app' = [app EXCEPT !.dashboard = load(@, <<app.currentCity, app.currentIndustry>>)]
    /\ AppFrame

DashboardSettles(outcome) ==
    /\ app.dashboard.inflight # <<>>
    /\ app' = [app EXCEPT !.dashboard = settle(@, outcome),
                          !.failures = @ \/ outcome # "ok"]
    /\ AppFrame

ForecastSettles(outcome) ==
    /\ app.forecast.inflight # <<>>
    /\ app' = [app EXCEPT !.forecast = settle(@, outcome),
                          !.failures = @ \/ outcome # "ok"]
    /\ AppFrame

\* Time passes, up to the next timeout that is due.
AppTick ==
    /\ app.now < MaxAppTicks * TickMs
    /\ \A due \in app.timers : app.now < due
    /\ \E t \in {app.now + TickMs} \cup app.timers :
         /\ \A u \in {app.now + TickMs} \cup app.timers : t <= u
         /\ app' = [app EXCEPT !.now = t]
    /\ AppFrame

AppNext ==
    \/ \E city \in AppCities : HandleCityChange(city)
    \/ \E industry \in AppIndustries : HandleIndustryChange(industry)
    \/ \E page \in Pages : HandleNavigation(page)
    \/ HandleGoogleLogin
    \/ HandleLogout
    \/ LogoutSettles
    \/ \E due \in app.timers : TimerFires(due)
    \/ Refresh
    \/ \E outcome \in Outcomes : DashboardSettles(outcome)
    \/ \E outcome \in Outcomes : ForecastSettles(outcome)
    \/ AppTick

vars == <<scoreVars, cacheVars, sourceVars, geminiVars, aiVars, reqVars, slVars, alertVars, siteVars, appVars>>

Init == ScoreInit /\ CacheIdle /\ SourceIdle /\ GeminiIdle /\ AiIdle /\ ReqIdle /\ SlIdle /\ AlertIdle /\ SiteIdle /\ AppIdle

Next == CalculateOverallRisk \/ GenerateForecast

Spec == Init /\ [][Next]_vars

CacheNext ==
    \/ \E k \in CacheKeys, v \in CacheValues, ttl \in Ttls : Set(k, v, ttl)
    \/ \E k \in CacheKeys : Get(k)
    \/ \E k \in CacheKeys : Del(k)
    \/ Clear
    \/ Tick

CacheSpecInit ==
    CacheInit /\ ScoreIdle /\ SourceIdle /\ GeminiIdle /\ AiIdle /\ ReqIdle /\ SlIdle /\ AlertIdle /\ SiteIdle /\ AppIdle

CacheSpec ==
    CacheSpecInit /\ [][CacheNext]_vars

SourceNext == CallGetAirQuality \/ CallGetCurrentWeather \/ CallGetWeatherForecast

SourceSpecInit ==
    SourceInit /\ ScoreIdle /\ CacheIdle /\ GeminiIdle /\ AiIdle /\ ReqIdle /\ SlIdle /\ AlertIdle /\ SiteIdle /\ AppIdle

SourceSpec ==
    SourceSpecInit /\ [][SourceNext]_vars

AiNext == CallInterpretForecast \/ CallInterpretForecastServerless

AiSpecInit == AiInit /\ ScoreIdle /\ CacheIdle /\ SourceIdle /\ ReqIdle /\ SlIdle /\ AlertIdle /\ SiteIdle /\ AppIdle

AiSpec == AiSpecInit /\ [][AiNext]_vars

ReqNext ==
    \/ \E r \in Sequential, kind \in {"env", "forecast"}, city \in ReqCities,
          industry \in ReqIndustries, aqUp \in ReqAirQualityProviders,
          wxUp \in ReqWeatherProviders :
            Receive(r, kind, city, industry, aqUp, wxUp)
    \/ \E r \in Sequential : AirQualitySettles(r)
    \/ \E r \in Sequential : WeatherSettles(r)
    \/ \E r \in Sequential, beh \in ReqAiBehaviours : Score(r, beh)
    \/ \E r \in Sequential : NarrativeSettles(r)
    \/ Tick

SlNext ==
    \/ \E fn \in {"environment", "risk"}, city \in SlCities, industry \in SlIndustries,
          aqUp \in SlAirQualityProviders :
            SlInvoke(fn, city, industry, aqUp)
    \/ \E wxUp \in SlWeatherProviders : SlAirQualitySettles(wxUp)
    \/ \E beh \in ReqAiBehaviours : SlWeatherSettles(beh)
    \/ SlNarrativeSettles

SlSpecInit ==
    SlInit /\ ScoreIdle /\ CacheIdle /\ SourceIdle /\ AiIdle /\ ReqIdle /\ AlertIdle /\ SiteIdle /\ AppIdle

SlSpec == SlSpecInit /\ [][SlNext]_vars

AlertSpecInit ==
    AlertInit /\ ScoreIdle /\ CacheIdle /\ SourceIdle /\ AiIdle /\ ReqIdle /\ SlIdle /\ SiteIdle /\ AppIdle

AlertSpec == AlertSpecInit /\ [][AlertNext]_vars

SiteSpecInit ==
    SiteInit /\ ScoreIdle /\ CacheIdle /\ SourceIdle /\ GeminiIdle /\ AiIdle /\ ReqIdle /\ SlIdle
    /\ AlertIdle /\ AppIdle

SiteSpec == SiteSpecInit /\ [][SiteNext]_vars

AppSpecInit ==
    AppInit /\ ScoreIdle /\ CacheIdle /\ SourceIdle /\ GeminiIdle /\ AiIdle /\ ReqIdle /\ SlIdle
    /\ AlertIdle /\ SiteIdle

AppSpec == AppSpecInit /\ [][AppNext]_vars

ReqSpecInit == ReqInit /\ ScoreIdle /\ CacheIdle /\ SourceIdle /\ AiIdle /\ SlIdle /\ AlertIdle /\ SiteIdle /\ AppIdle

ReqSpec == ReqSpecInit /\ [][ReqNext]_vars

\* Requests whose city and industry contain the separator of the cache
\* keys, over a longer clock, with well-behaved upstreams.
MaxKeyTime == 7

\* <<kind, city, industry>>
KeyRequests ==
    {<<"env", <<"Delhi">>, <<"Mining", ":", "X">>>>,
     <<"env", <<"Delhi", ":", "Mining">>, <<"X">>>>,
     <<"forecast", <<"Delhi">>, <<"Mining">>>>}

KeyAirQualityProviders == {u \in ReqAirQualityProviders : ~u.key}

KeyWeatherProviders == {u \in ReqWeatherProviders : u.response = "ok"}

KeyAiBehaviours == {b \in ReqAiBehaviours : b.generate \in {"ok", "throws"}}

KeyTick ==
    /\ now < MaxKeyTime
    /\ now' = now + 1
    /\ UNCHANGED <<cache, ret, written>>
    /\ CacheFrame

KeyNext ==
    \/ \E r \in Sequential, k \in KeyRequests, aqUp \in KeyAirQualityProviders,
          wxUp \in KeyWeatherProviders :
            Receive(r, k[1], k[2], k[3], aqUp, wxUp)
    \/ \E r \in Sequential : AirQualitySettles(r)
    \/ \E r \in Sequential : WeatherSettles(r)
    \/ \E r \in Sequential, beh \in KeyAiBehaviours : Score(r, beh)
    \/ \E r \in Sequential : NarrativeSettles(r)
    \/ KeyTick

KeySpec == ReqSpecInit /\ [][KeyNext]_vars

\* Two requests in flight at once, for the same key or for different keys.
ConcIndustries == {<<"Mining">>, <<"Textile">>}

ConcAiBehaviours == {b \in KeyAiBehaviours : b.text.body = "prose" /\ b.stages[2] = "finds"}

ConcNext ==
    \/ \E r \in Requests, city \in ReqCities, industry \in ConcIndustries,
          aqUp \in KeyAirQualityProviders, wxUp \in KeyWeatherProviders :
            Receive(r, "env", city, industry, aqUp, wxUp)
    \/ \E r \in Requests : AirQualitySettles(r)
    \/ \E r \in Requests : WeatherSettles(r)
    \/ \E r \in Requests, beh \in ConcAiBehaviours : Score(r, beh)
    \/ \E r \in Requests : NarrativeSettles(r)
    \/ Tick

ConcSpec == ReqSpecInit /\ [][ConcNext]_vars

\* The narrative caches over time: requests for one city and industry, two at
\* a time, direct calls of explainAlert, and a clock that moves in steps just
\* longer than the conditions payload's TTL.
MaxAiSteps == 3

AiStep == ENV_PAYLOAD_TTL + 1

AiCacheInputs == {in \in AlertInputs : in.aqi # <<>> /\ in.persistence = <<"Long">>}

\* The provider fails explainAlert's generateContent.
AiCacheFailures == {b \in ConcAiBehaviours : b.generate = "throws"}

AiTick ==
    /\ now < MaxAiSteps * AiStep
    /\ now' = now + AiStep
    /\ UNCHANGED <<cache, ret, written>>
    /\ CacheFrame

AiCacheNext ==
    \/ \E r \in Requests :
       \E kind \in (IF r \in Sequential THEN {"env", "forecast"} ELSE {"env"}),
          city \in ReqCities, industry \in {<<"Mining">>},
          aqUp \in KeyAirQualityProviders, wxUp \in KeyWeatherProviders :
            Receive(r, kind, city, industry, aqUp, wxUp)
    \/ \E r \in Requests : AirQualitySettles(r)
    \/ \E r \in Requests : WeatherSettles(r)
    \/ \E r \in Requests, beh \in ConcAiBehaviours : Score(r, beh)
    \/ \E r \in Requests : NarrativeSettles(r)
    \/ \E in \in AiCacheInputs, beh \in AiCacheFailures : CallExplainAlert(in, beh)
    \/ AiTick

AiCacheSpecInit == ReqSpecInit /\ geminiKey

AiCacheSpec == AiCacheSpecInit /\ [][AiCacheNext]_vars

\* The event loop runs every continuation that is ready: a settled promise
\* resumes its handler.  Nothing obliges a provider to answer.
FairReqSpec ==
    /\ ReqSpec
    /\ \A r \in Sequential :
          /\ WF_vars(AirQualitySettles(r))
          /\ WF_vars(WeatherSettles(r))
          /\ WF_vars(\E beh \in ReqAiBehaviours : Score(r, beh))
          /\ WF_vars(NarrativeSettles(r))

-----------------------------------------------------------------------------
(* Properties of the scorer and the forecast deriver (specification Spec)  *)

ImpactNames == {"humanHealth", "ecosystems", "environment", "socioEconomic"}

\* C1: every impact score and the overall score returned by
\* calculateOverallRisk lies in [0,100], for every reading, weather snapshot
\* and industry.
C1_ScoresWithinRange ==
    riskAnalysis.status = "ok" =>
        /\ \A i \in ImpactNames : riskAnalysis.impacts[i].score \in 0..100
        /\ riskAnalysis.overallRisk.score \in 0..100

\* C2: in every ImpactScore and overallRisk of calculateOverallRisk and in
\* overallRisk of generateForecast, the reported level is the classifier
\* (<= 33 Low, <= 66 Moderate, else High) applied to the reported integer
\* score of the same object.
C2_LevelClassifiesReportedScore ==
    /\ riskAnalysis.status = "ok" =>
        /\ \A i \in ImpactNames :
              riskAnalysis.impacts[i].level = getRiskLevel(riskAnalysis.impacts[i].score, 1)
        /\ riskAnalysis.overallRisk.level = getRiskLevel(riskAnalysis.overallRisk.score, 1)
    /\ forecast.status = "ok" =>
        forecast.overallRisk.level = getRiskLevel(forecast.overallRisk.score, 1)

\* C3: an industry name that is not a key of the profile table is scored
\* with the "Generic Industrial Zone" profile and never raises an error; a
\* name that is a key is scored with the profile of exactly that key.
ExpectedProfile(industry) ==
    IF industry \in DOMAIN INDUSTRY_PROFILES THEN INDUSTRY_PROFILES[industry]
    ELSE INDUSTRY_PROFILES["Generic Industrial Zone"]

C3_LookupNeverFails ==
    /\ riskAnalysis.status # "none" =>
        /\ riskAnalysis.status = "ok"
        /\ riskAnalysis.industryContext = ExpectedProfile(scoreIn.industry)
    /\ forecast.status # "none" =>
        /\ forecast.status = "ok"
        /\ forecast.industryContext = ExpectedProfile(scoreIn.industry)

\* C4: primaryConcerns of calculateOverallRisk and earlyWarnings of
\* generateForecast always hold at least one entry, and the placeholder
\* entry is present exactly when the list holds no other entry.
C4_ListsNeverEmpty ==
    /\ riskAnalysis.status = "ok" =>
        /\ Len(riskAnalysis.primaryConcerns) >= 1
        /\ Includes(riskAnalysis.primaryConcerns, ConcernRoutine)
             <=> ~(\E j \in DOMAIN riskAnalysis.primaryConcerns :
                      riskAnalysis.primaryConcerns[j] # ConcernRoutine)
    /\ forecast.status = "ok" =>
        /\ Len(forecast.earlyWarnings) >= 1
        /\ Includes(forecast.earlyWarnings, WarnStatusNormal)
             <=> ~(\E j \in DOMAIN forecast.earlyWarnings :
                      forecast.earlyWarnings[j] # WarnStatusNormal)

C4_Witness ==
    /\ forecast.status = "ok"
    /\ forecast.earlyWarnings = <<WarnStatusNormal>>
    /\ scoreIn.industry = "Construction"

\* C5: generateForecast returns at most 4 preventiveActions in strictly
\* ascending priority, the first being the priority-1 monitoring action; the
\* priority-4 action is the persistent-waste action exactly when
\* persistenceType is "Very Long", the stakeholder action otherwise.
C5_PreventiveActions ==
    forecast.status = "ok" =>
        LET acts == forecast.preventiveActions
            veryLong == forecast.industryContext.persistence_type = "Very Long"
            p4 == {j \in DOMAIN acts : acts[j].priority = 4}
        IN  /\ Len(acts) >= 1 /\ Len(acts) <= 4
            /\ \A j \in 1..(Len(acts) - 1) : acts[j].priority < acts[j + 1].priority
            /\ acts[1] = ActMonitoring
            /\ Cardinality(p4) = 1
            /\ \A j \in p4 : acts[j] = (IF veryLong THEN ActPersistentWaste ELSE ActStakeholder)

C5_Witness ==
    /\ forecast.status = "ok"
    /\ Len(forecast.preventiveActions) = 4
    /\ forecast.preventiveActions[4] = ActPersistentWaste

-----------------------------------------------------------------------------
(* Properties of the TTL cache (specification CacheSpec)                   *)

\* C6: after set(key, value, ttl), with no later set, delete or clear of the
\* key, get(key) returns value at every instant before ttl has elapsed and
\* null at every instant after more than ttl has elapsed; get never returns
\* a value whose expiry instant is in the past.
C6_TtlRoundTrip ==
    ret.op = "get" =>
        /\ ret.key \in DOMAIN written =>
            LET w == written[ret.key]
            IN  /\ ret.at < w.at + w.ttl => ret.value = <<w.value>>
                /\ ret.at > w.at + w.ttl => ret.value = <<>>
        /\ ret.value # <<>> =>
            /\ ret.key \in DOMAIN written
            /\ written[ret.key].at + written[ret.key].ttl >= ret.at

C6_Witness ==
    /\ ret.op = "get"
    /\ ret.key \in DOMAIN written
    /\ ret.at > written[ret.key].at + written[ret.key].ttl
    /\ written[ret.key].ttl > 0
    /\ ret.value = <<>>

-----------------------------------------------------------------------------
(* Properties of the data sources (specification SourceSpec)               *)

\* The provider is unconfigured, answers with a non-OK status, returns no
\* station or no measurements, or throws, at a point the call reaches.
ProviderFailed(c) ==
    IF c.fn = "getAirQuality"
    THEN \/ ~c.up.key
         \/ c.up.loc \in {"throws", "notOk", "badJson", "noStation"}
         \/ /\ c.up.loc = "station"
            /\ \/ c.up.latest \in {"throws", "notOk", "badJson", "malformed"}
               \/ c.up.latest = "ok" /\ \A j \in DOMAIN c.up.results :
                                            "name" \notin DOMAIN c.up.results[j]
    ELSE \/ ~c.up.key
         \/ c.up.response \in {"throws", "notOk", "badJson", "malformed"}

\* The reading is the demo/default reading of the city.
IsDemoReading(c, r) ==
    CASE c.fn = "getAirQuality" ->
            /\ r.aqi = calculateAQI(DemoCity(c.city))
            /\ \A k \in PollutantKeys :
                  /\ r.pollutants[k] >= MathRound(90 * DemoCity(c.city)[k], 100)
                  /\ r.pollutants[k] <= MathRound(110 * DemoCity(c.city)[k], 100)
      [] c.fn = "getCurrentWeather" ->
            /\ r.current.windSpeed >= MathRound(95 * DemoWeatherBase(c.city).windSpeed, 100)
            /\ r.current.windSpeed <= MathRound(105 * DemoWeatherBase(c.city).windSpeed, 100)
            /\ r.current.humidity >= MathRound(95 * DemoWeatherBase(c.city).humidity, 100)
            /\ r.current.humidity <= MathRound(105 * DemoWeatherBase(c.city).humidity, 100)
      [] OTHER -> r.trends = [windTrend |-> "decreasing"]

\* C8: getAirQuality, getCurrentWeather and getWeatherForecast never reject;
\* whenever the provider is unconfigured, returns a non-OK status, returns
\* no station or measurements, or throws, the call resolves to the
\* demo/default reading, tagged isDemo: true.
C8_SourcesNeverReject ==
    srcResult.settled # "none" =>
        /\ srcResult.settled \in {"resolved", "pending"}
        /\ ProviderFailed(srcCall) =>
              /\ srcResult.settled = "resolved"
              /\ srcResult.isDemo = TRUE
              /\ IsDemoReading(srcCall, srcResult)

C8_Witness ==
    /\ srcCall.fn = "getAirQuality"
    /\ srcCall.up.key
    /\ srcCall.up.loc = "station"
    /\ srcCall.up.latest = "throws"
    /\ srcResult.settled = "resolved"
    /\ srcResult.isDemo = TRUE

-----------------------------------------------------------------------------
(* Properties of the narrative service (specification AiSpec)              *)

\* The client is not configured, the AI call fails, or the response text is
\* not parseable JSON (for the call the service actually makes).
AiUnusable(key, c) ==
    \/ ~key
    \/ c.beh.generate = "throws"
    \/ /\ cachedModelName = <<>>
       /\ \A i \in (IF c.fn = "interpretForecast" THEN 1..3 ELSE {3}) :
              c.beh.stages[i] \in {"absent", "fails"}
    \/ IF c.fn = "interpretForecast"
       THEN JsonParse(StripFences(c.beh.text)) = <<>>
       ELSE JsonParse(c.beh.text) = <<>>

\* C7 (as stated): when the AI client is not configured, the AI call fails or
\* the response is not parseable JSON, interpretForecast resolves to the fixed
\* default structure whose stress windows, exposure breakdown and early
\* warnings are all empty and whose narrative is the stable-conditions text.
C7_DefaultHasEmptyLists ==
    (aiResult.settled = "resolved" /\ AiUnusable(geminiKey, aiCall)) =>
        /\ aiResult.value.stress_windows = <<>>
        /\ aiResult.value.exposure_breakdown = <<>>
        /\ aiResult.value.early_warnings = <<>>

\* C7 (amended): in those cases interpretForecast never throws or rejects and
\* resolves to the fixed default structure of its implementation: the early
\* warnings list is empty and the narrative is the stable-conditions text;
\* the stress-window and exposure lists are empty in the serverless
\* implementation and hold one and two fixed entries in the Express one.
C7_FallsBackToDefault ==
    aiResult.settled # "none" =>
        /\ aiResult.settled \in {"resolved", "pending"}
        /\ (aiResult.settled = "resolved" /\ AiUnusable(geminiKey, aiCall)) =>
              /\ aiResult.value.early_warnings = <<>>
              /\ aiResult.value = (IF aiCall.fn = "interpretForecast"
                                   THEN getDefaultForecastInterpretation
                                   ELSE defaultForecast)
              /\ IF aiCall.fn = "interpretForecast"
                 THEN /\ Len(aiResult.value.stress_windows) = 1
                      /\ Len(aiResult.value.exposure_breakdown) = 2
                 ELSE /\ aiResult.value.stress_windows = <<>>
                      /\ aiResult.value.exposure_breakdown = <<>>
        /\ (AiUnusable(geminiKey, aiCall) /\ ~geminiKey) => aiResult.settled = "resolved"

C7_Witness ==
    /\ aiCall.fn = "interpretForecast"
    /\ geminiKey
    /\ aiCall.beh.generate = "ok"
    /\ aiCall.beh.text = [fenced |-> FALSE, body |-> "prose"]
    /\ aiResult.settled = "resolved"
    /\ aiResult.value = getDefaultForecastInterpretation

-----------------------------------------------------------------------------
(* Claims about the request handlers (ReqSpec, FairReqSpec).               *)

\* The narrative provider failed the call a request made: no listed model
\* could be resolved, or generation threw.
NarrativeFailed(q) ==
    /\ q.aiPath = "called"
    /\ \/ q.aiBeh.generate = "throws"
       \/ /\ cachedModelName = <<>>
          /\ \A i \in 1..Len(q.aiBeh.stages) : q.aiBeh.stages[i] \in {"absent", "fails"}

\* C9: a current-conditions request whose scoring succeeded and whose
\* narrative service failed (the call threw) or is unavailable (no key) is
\* answered 200 with success: true and the computed riskAnalysis; when the
\* call failed, the insight is the templated sentence built from the
\* industry and overallRisk.
C9_NarrativeFailureNeverFailsRequest ==
    \A r \in Requests :
        LET q == req[r]
        IN  (/\ q.pc = "done"
             /\ q.kind = "env"
             /\ q.risk.status = "ok"
             /\ (~geminiKey \/ NarrativeFailed(q)))
            => /\ q.response.status = 200
               /\ q.response.body.success
               /\ q.response.body.data.riskAnalysis
                    = calculateOverallRisk(q.aq, q.wx, Text(q.industry))
               /\ q.response.body.data.aiInsights
                    = IF geminiKey
                      THEN <<getDefaultConditionsInterpretation(q.wx, q.risk, q.industry)>>
                      ELSE <<>>

C9_Witness ==
    \E r \in Requests :
        /\ req[r].pc = "done"
        /\ req[r].kind = "env"
        /\ geminiKey
        /\ NarrativeFailed(req[r])
        /\ req[r].aiBeh.generate = "throws"
        /\ req[r].response.body.success
        /\ req[r].response.body.data.aiInsights[1].kind = "default"

\* C10: every current-conditions or forecast request that is being handled
\* is eventually answered, whatever its upstream calls and its narrative
\* call do, never completing included.
C10_EveryRequestIsAnswered ==
    \A r \in Requests :
        (req[r].pc \in {"fetching", "narrative"}) ~> (req[r].pc = "done")
-----------------------------------------------------------------------------
(* Ordering of the calls a handler makes (SlSpec, ReqSpec).                *)

\* C11: in every handler that scores risk, both fetches are issued before
\* either is awaited, scoring starts only after both have settled, and the
\* narrative call is issued only after scoring.  Stated for the serverless
\* functions api/environment.js and api/risk.js.
C11_FetchesIssuedBeforeAwait ==
    sl.pc # "idle" =>
        /\ (sl.pc = "awaitAirQuality" => Includes(sl.issued, "weather"))
        /\ (("riskAnalysis" \in DOMAIN sl \/ "response" \in DOMAIN sl)
               => Includes(sl.settled, "airQuality") /\ Includes(sl.settled, "weather"))
        /\ (Includes(sl.issued, "narrative") => "riskAnalysis" \in DOMAIN sl)

\* The same ordering for the Express handlers GET /environmental-data and
\* GET /forecast, which use Promise.all.
ExpressOrdering ==
    \A r \in Requests :
        /\ req[r].pc = "fetching" => {"aq", "wx"} \subseteq DOMAIN req[r]
        /\ (req[r].pc # "idle" /\ req[r].risk.status = "ok")
              => req[r].aq.settled = "resolved" /\ req[r].wx.settled = "resolved"
        /\ (req[r].pc # "idle" /\ req[r].aiPath = "called") => req[r].risk.status = "ok"
-----------------------------------------------------------------------------
(* Payload caching of the Express handlers (KeySpec, ReqSpec).             *)

PayloadTtl(q) == IF q.kind = "env" THEN ENV_PAYLOAD_TTL ELSE FORECAST_PAYLOAD_TTL

\* A request arrives in slot r in this step.
Arrives(r) == req[r].pc \in {"idle", "done"} /\ req'[r] # req[r]

\* The payload of the arriving request was stored less than its TTL ago.
StoredWithinTtl(r) ==
    /\ CacheKeyOf(req'[r]) \in DOMAIN cache
    /\ now - (cache[CacheKeyOf(req'[r])].expires - PayloadTtl(req'[r])) < PayloadTtl(req'[r])

\* The payload of the arriving request was stored more than its TTL ago.
StoredBeforeTtl(r) ==
    /\ CacheKeyOf(req'[r]) \in DOMAIN cache
    /\ now - (cache[CacheKeyOf(req'[r])].expires - PayloadTtl(req'[r])) > PayloadTtl(req'[r])

\* A request stored within the TTL is answered with exactly the stored
\* payload, without fetch, scoring or narrative call.
ServedFromCache(r) ==
    (Arrives(r) /\ StoredWithinTtl(r)) =>
        /\ req'[r].pc = "done"
        /\ req'[r].response.xcache = "HIT"
        /\ req'[r].response.body = cache[CacheKeyOf(req'[r])].value
        /\ req'[r].risk = NotCalled
        /\ req'[r].aiPath = "none"
        /\ {"aq", "wx"} \cap DOMAIN req'[r] = {}
        /\ cache' = cache

\* A request arriving after the TTL recomputes, and the recomputed payload
\* is stored under the request's key with a fresh TTL.
RecomputedAfterTtl(r) ==
    /\ (Arrives(r) /\ StoredBeforeTtl(r)) => req'[r].pc = "fetching"
    /\ (req[r].pc \in {"fetching", "narrative"} /\ req'[r].pc = "done"
          /\ req'[r].response.status = 200)
        => /\ CacheKeyOf(req'[r]) \in DOMAIN cache'
           /\ cache'[CacheKeyOf(req'[r])] =
                 [value |-> req'[r].response.body, expires |-> now + PayloadTtl(req'[r])]

\* The payload that answers a request was built for its city and industry.
AnsweredWithOwnPayload(r) ==
    (req'[r].pc = "done" /\ req'[r].response.status = 200) =>
        /\ req'[r].response.body.city = req'[r].city
        /\ req'[r].response.body.industry = req'[r].industry

\* C12: a request for a city+industry whose payload was stored less than the
\* payload TTL ago (3 minutes, forecast 5) returns exactly the stored payload
\* and does no fetch, scoring or AI call; one arriving after the TTL
\* recomputes and stores a new payload; payloads of different city+industry
\* pairs never answer each other's requests.
C12_PayloadCaching ==
    [][\A r \in Requests :
         ServedFromCache(r) /\ RecomputedAfterTtl(r) /\ AnsweredWithOwnPayload(r)]_vars

\* The first two parts of C12 alone.
PayloadTtlRespected ==
    [][\A r \in Requests : ServedFromCache(r) /\ RecomputedAfterTtl(r)]_vars
-----------------------------------------------------------------------------
(* Alert explanation (AlertSpec).                                           *)

\* The direct call of explainAlert, when the provider answers at all, yields
\* the provider's text, a cached explanation or the fallback of its inputs.
ExplainAlertYieldsString ==
    (alert.pc = "done" /\ alert.op = "explainAlert" /\ alert.result.settled # "pending")
        => /\ alert.result.settled = "resolved"
           /\ alert.result.value \in
                 {fallbackExplainAlert(alert.in)}
                   \cup {[kind |-> "ai", text |-> b.text] : b \in AlertAiBehaviours}

\* C14: for every alert input and every AI outcome the alert explanation
\* yields an explanation string, the AI text or the fallback built from the
\* inputs, and POST /alert-explain never answers with a failure.
C14_AlertExplainNeverFails ==
    /\ ExplainAlertYieldsString
    /\ (alert.pc = "done" /\ alert.op = "POST" /\ "response" \in DOMAIN alert)
          => alert.response.status = 200 /\ alert.response.success
-----------------------------------------------------------------------------
(* Concurrent requests on the shared cache (ConcSpec).                      *)

\* The key a payload of `kind` carrying this city and industry was built for.
BuiltFor(kind, p) == Template(<<<<kind>>, p.city, p.industry>>)

CompleteEntry(e) == DOMAIN e = {"value", "expires"} /\ e.expires \in Nat

\* A whole environment payload of one request.
WholePayload(v) ==
    /\ DOMAIN v = {"success", "city", "industry", "data"}
    /\ DOMAIN v.data = {"airQuality", "weather", "riskAnalysis", "aiInsights"}
    /\ v.data.airQuality.settled = "resolved"
    /\ v.data.weather.settled = "resolved"
    /\ v.data.riskAnalysis.status = "ok"

\* Every entry is a complete pair; a payload entry holds a whole payload
\* built for the key it is stored under.
EntriesComplete(m) ==
    \A k \in DOMAIN m :
        /\ CompleteEntry(m[k])
        /\ k[1] = "env" => WholePayload(m[k].value) /\ BuiltFor("env", m[k].value) = k

\* An entry that appears or changes in a step was written by one set of
\* one request: value and expiry come from the same call.
WrittenBySingleSet ==
    \A k \in DOMAIN cache' :
        (k \notin DOMAIN cache \/ cache'[k] # cache[k]) =>
            IF k[1] = "env"
            THEN \E r \in Requests :
                    /\ req[r].pc \in {"fetching", "narrative"}
                    /\ req'[r].pc = "done"
                    /\ cache'[k] = [value |-> req'[r].response.body,
                                     expires |-> now + ENV_PAYLOAD_TTL]
            ELSE \E r \in Requests :
                    /\ req[r].pc \in {"fetching", "narrative"}
                    /\ req'[r].pc = "done"
                    /\ <<cache'[k].value>> = req'[r].response.body.data.aiInsights
                    /\ cache'[k].expires = now + AI_CONDITIONS_TTL

\* The reader sees the whole payload of one request, or absence.
ReaderSeesWholeOrNothing(r) ==
    Arrives(r) =>
        \/ /\ req'[r].pc = "done"
           /\ CacheKeyOf(req'[r]) \in DOMAIN cache
           /\ req'[r].response.body = cache[CacheKeyOf(req'[r])].value
           /\ WholePayload(req'[r].response.body)
        \/ /\ req'[r].pc = "fetching"
           /\ CacheKeyOf(req'[r]) \notin DOMAIN cache'

\* The payload a request is answered with was built for the request's key.
ObservesOwnKey(r) ==
    (req'[r].pc = "done" /\ req'[r].response.status = 200) =>
        BuiltFor(req'[r].kind, req'[r].response.body) = BuiltFor(req'[r].kind, req'[r])

\* C13: under any interleaving of concurrent requests at their suspension
\* points, every cache entry is a complete {value, expiry} pair written by
\* a single set, a reader sees the whole payload of one request or absence,
\* and no request observes a payload built for a different key.
C13_CacheConsistentUnderInterleaving ==
    [][/\ EntriesComplete(cache')
       /\ WrittenBySingleSet
       /\ \A r \in Requests : ReaderSeesWholeOrNothing(r) /\ ObservesOwnKey(r)]_vars

\* A request is answered from the cache while another request for the same
\* key, which missed earlier, is still suspended.
C13_Witness ==
    /\ req["r1"].pc = "done"
    /\ req["r1"].response.xcache = "HIT"
    /\ req["r2"].pc \in {"fetching", "narrative"}
    /\ req["r2"].industry = req["r1"].industry
    /\ req["r2"].city = req["r1"].city
-----------------------------------------------------------------------------
(* Concrete scenarios of the scorer (Spec).                                 *)

ScenarioA ==
    /\ scoreIn.op = "risk"
    /\ scoreIn.industry = "Thermal Power Plant"
    /\ "pollutants" \in DOMAIN scoreIn.airQuality
    /\ scoreIn.airQuality.pollutants =
          [pm25 |-> 156, pm10 |-> 245, no2 |-> 62, o3 |-> 45, so2 |-> 18]
    /\ {"windSpeed", "humidity"} \subseteq DOMAIN scoreIn.weather.current
    /\ scoreIn.weather.current.windSpeed = 8
    /\ scoreIn.weather.current.humidity = 65

\* C15: scenario A (PM2.5 156, PM10 245, NO2 62, O3 45, SO2 18, wind 8,
\* humidity 65, Thermal Power Plant) is scored High overall, and its health
\* impact score alone exceeds 66.
C15_ScenarioAIsHigh ==
    (ScenarioA /\ riskAnalysis.status # "none") =>
        /\ riskAnalysis.status = "ok"
        /\ riskAnalysis.overallRisk.level = "High"
        /\ riskAnalysis.impacts.humanHealth.score > 66

C15_Witness ==
    /\ ScenarioA
    /\ riskAnalysis.status = "ok"

ScenarioB ==
    /\ scoreIn.op = "risk"
    /\ scoreIn.industry = "Generic Industrial Zone"
    /\ "pollutants" \in DOMAIN scoreIn.airQuality
    /\ \A k \in DOMAIN scoreIn.airQuality.pollutants : scoreIn.airQuality.pollutants[k] = 0
    /\ DOMAIN scoreIn.weather.current = {}

\* C16: scenario B (every pollutant 0 or missing, default weather, Generic
\* Industrial Zone) scores 0 and Low in each of the four impacts and overall.
C16_ScenarioBIsZero ==
    (ScenarioB /\ riskAnalysis.status # "none") =>
        /\ riskAnalysis.status = "ok"
        /\ \A i \in {"humanHealth", "ecosystems", "environment", "socioEconomic"} :
              /\ riskAnalysis.impacts[i].score = 0
              /\ riskAnalysis.impacts[i].level = "Low"
        /\ riskAnalysis.overallRisk.score = 0
        /\ riskAnalysis.overallRisk.level = "Low"

\* All five pollutants reported as 0.
C16_Witness ==
    /\ ScenarioB
    /\ DOMAIN scoreIn.airQuality.pollutants = {"pm25", "pm10", "no2", "o3", "so2"}
    /\ riskAnalysis.status = "ok"
-----------------------------------------------------------------------------
(* Forecast rules (Spec).                                                   *)

\* A forecast was computed for a known profile from a supplied AQI value.
ForecastWithAqi ==
    /\ scoreIn.op = "forecast"
    /\ forecast.status = "ok"
    /\ scoreIn.industry \in DOMAIN INDUSTRY_PROFILES
    /\ "aqi" \in DOMAIN scoreIn.airQuality

\* C17: chemicalAccumulation.level is High for persistence "Very Long",
\* Moderate for "Long" or "Medium to Long" or for "Medium" with AQI > 200,
\* Low otherwise; so Thermal Power Plant yields Moderate and Chemical /
\* Petrochemical with AQI 250 yields High.
C17_AccumulationLevel ==
    ForecastWithAqi =>
        \E p \in {INDUSTRY_PROFILES[scoreIn.industry].persistence_type},
           aqi \in {scoreIn.airQuality.aqi.value} :
            forecast.longTerm.chemicalAccumulation.level =
                IF p = "Very Long" THEN "High"
                ELSE IF p \in {"Long", "Medium to Long"} \/ (p = "Medium" /\ aqi > 200)
                     THEN "Moderate"
                ELSE "Low"

\* The numerator over 3 of the raw score the rule prescribes: min(100, AQI/3)
\* for a known AQI, 50 for an unknown one.
PrescribedRaw(airQuality) ==
    IF "aqi" \in DOMAIN airQuality THEN Min100(airQuality.aqi.value, 3) ELSE 150

\* The numerator over 300 of the prescribed adjusted score, the multiplier
\* being in hundredths and 1.0 when the profile defines none.
PrescribedAdjusted(airQuality, profile) ==
    Min100(PrescribedRaw(airQuality)
             * (IF profile.vulnerabilityMultiplier = <<>> THEN 100
                ELSE profile.vulnerabilityMultiplier[1]), 300)

\* C18: rawScore is min(100, AQI/3) whenever an AQI value is known, a known
\* 0 included, and 50 only when it is unknown; adjustedScore is min(100,
\* rawScore x multiplier), the multiplier being 1.0 when the profile has
\* none; the score is never above 100 and the level classifies adjustedScore.
C18_ForecastScore ==
    (scoreIn.op = "forecast" /\ forecast.status = "ok") =>
        \E adj \in {PrescribedAdjusted(scoreIn.airQuality, forecast.industryContext)} :
            /\ forecast.overallRisk.rawScore = MathRound(PrescribedRaw(scoreIn.airQuality), 3)
            /\ forecast.overallRisk.score = MathRound(adj, 300)
            /\ forecast.overallRisk.score <= 100
            /\ forecast.overallRisk.level = getRiskLevel(adj, 300)
-----------------------------------------------------------------------------
(* Reported AQI and primary concerns of calculateOverallRisk (Spec).        *)

RiskScored == scoreIn.op = "risk" /\ riskAnalysis.status = "ok"

\* C19: overallRisk.aqi is the supplied AQI value whenever one is supplied,
\* 0 included, and round(overallScore x 5) only when none is; the category is
\* the supplied one when supplied, else the one derived from that aqi.  The
\* reported score is overallScore rounded, so round(overallScore x 5) lies
\* within 3 of five times the reported score.
C19_ReportedAqi ==
    RiskScored =>
        IF "aqi" \in DOMAIN scoreIn.airQuality
        THEN /\ riskAnalysis.overallRisk.aqi = scoreIn.airQuality.aqi.value
             /\ riskAnalysis.overallRisk.category = scoreIn.airQuality.aqi.category
        ELSE /\ riskAnalysis.overallRisk.aqi >= 5 * riskAnalysis.overallRisk.score - 3
             /\ riskAnalysis.overallRisk.aqi <= 5 * riskAnalysis.overallRisk.score + 3
             /\ riskAnalysis.overallRisk.category = getAQICategory(riskAnalysis.overallRisk.aqi)

\* What the rule list prescribes for the call's pollutants, temperature and
\* profile.
PrescribedConcerns(airQuality, weather, profile) ==
    LET highPm25 == /\ "pm25" \in DOMAIN airQuality.pollutants
                    /\ airQuality.pollutants.pm25 > 100
        hotVocs == /\ Includes(profile.primary_pollutants, "VOCs")
                   /\ "temperature" \in DOMAIN weather.current
                   /\ weather.current.temperature > 30
    IN  (IF highPm25
         THEN IF Includes(profile.primary_pollutants, "PM2.5")
              THEN <<ConcernPM25Industry>> ELSE <<ConcernPM25Generic>>
         ELSE <<>>)
        \o (IF hotVocs THEN <<ConcernVOC>> ELSE <<>>)
        \o (IF ~highPm25 /\ ~hotVocs THEN <<ConcernRoutine>> ELSE <<>>)

\* C20: primaryConcerns follows the rule list: PM2.5 > 100 adds one concern
\* (industry wording when PM2.5 is a primary pollutant, generic otherwise),
\* a profile with VOCs and a current temperature above 30 adds the
\* volatilization concern, and the routine placeholder appears only when
\* neither rule fired.
C20_PrimaryConcerns ==
    RiskScored =>
        riskAnalysis.primaryConcerns =
            PrescribedConcerns(scoreIn.airQuality, scoreIn.weather, riskAnalysis.industryContext)
-----------------------------------------------------------------------------
(* Risk drivers and early warnings of generateForecast (Spec).              *)

ForecastMade == scoreIn.op = "forecast" /\ forecast.status = "ok"

\* The reading a primary pollutant is matched with, and its threshold.
DriverReading == [p \in {"PM2.5", "PM10", "NOx", "SO2"} |->
                    CASE p = "PM2.5" -> <<"pm25", 60>>
                      [] p = "PM10" -> <<"pm10", 100>>
                      [] p = "NOx" -> <<"no2", 40>>
                      [] p = "SO2" -> <<"so2", 40>>]

PrescribedSeverity(pollutant, airQuality) ==
    IF /\ pollutant \in DOMAIN DriverReading
       /\ "pollutants" \in DOMAIN airQuality
       /\ DriverReading[pollutant][1] \in DOMAIN airQuality.pollutants
    THEN IF airQuality.pollutants[DriverReading[pollutant][1]] > DriverReading[pollutant][2]
         THEN "High" ELSE "Moderate"
    ELSE "Potential"

PersistentProfile(profile) == profile.persistence_type \in {"Long", "Very Long"}

C22_EarlyWarnings ==
    ForecastMade =>
        \E w \in {forecast.earlyWarnings},
           aqiAbove \in {{t \in {150, 200} : /\ "aqi" \in DOMAIN scoreIn.airQuality
                                            /\ scoreIn.airQuality.aqi.value > t}},
           decreasing \in {/\ "trends" \in DOMAIN scoreIn.weather
                           /\ "windTrend" \in DOMAIN scoreIn.weather.trends
                           /\ scoreIn.weather.trends.windTrend = "decreasing"} :
            /\ Includes(w, WarnAirQuality) <=> 200 \in aqiAbove
            /\ Includes(w, WarnDispersion) <=>
                  (decreasing /\ Includes(forecast.industryContext.primary_pollutants, "PM2.5"))
            /\ Includes(w, WarnAccumulation) <=> PersistentProfile(forecast.industryContext)
            /\ Includes(w, WarnPersistentRisk) <=>
                  (~PersistentProfile(forecast.industryContext) /\ 150 \in aqiAbove)
            /\ ~(Includes(w, WarnAccumulation) /\ Includes(w, WarnPersistentRisk))

\* A decreasing wind trend at AQI above 200 for a PM2.5 profile that is not
\* persistent: three warnings at once.
C22_Witness ==
    /\ ForecastMade
    /\ Includes(forecast.earlyWarnings, WarnAirQuality)
    /\ Includes(forecast.earlyWarnings, WarnDispersion)
    /\ Includes(forecast.earlyWarnings, WarnPersistentRisk)
-----------------------------------------------------------------------------
(* Weather terms of the impact formulas (Spec).                             *)

\* A supplied value, or the neutral default when the field is absent.
Supplied(obj, key, dflt) == IF key \in DOMAIN obj THEN obj[key] ELSE dflt

\* Numerator over 600 of the environment score prescribed for the supplied
\* wind and visibility: dispersion factor 1.0 up to 8, 0.85 up to 15, 0.7
\* above; stagnation term (10 - min(visibility, 10)) x 3.5.
PrescribedEnvironment(pollutants, weather) ==
    LET wind == Supplied(weather, "windSpeed", 10)
        vis  == Supplied(weather, "visibility", 10)
        f    == IF wind > 15 THEN 70 ELSE IF wind > 8 THEN 85 ELSE 100
    IN  Min100(2 * f * (7 * ValueOr(pollutants, "pm25", 0) + 2 * ValueOr(pollutants, "pm10", 0))
                 + 2100 * (10 - (IF vis < 10 THEN vis ELSE 10)), 600)

\* Numerator over 40 of the ecosystem score prescribed for the supplied
\* humidity: the penalty of 10 applies below 30.
PrescribedEcosystem(pollutants, weather) ==
    Min100(48 * ValueOr(pollutants, "no2", 0) + 35 * ValueOr(pollutants, "so2", 0)
             + 10 * ValueOr(pollutants, "o3", 0)
             + (IF Supplied(weather, "humidity", 50) < 30 THEN 400 ELSE 0), 40)

\* C23: for every supplied weather value, a supplied 0 included, the impact
\* formulas use the supplied value and take the neutral default (wind 10,
\* visibility 10, humidity 50) only when the field is absent.
C23_SuppliedWeatherIsUsed ==
    RiskScored =>
        /\ riskAnalysis.impacts.environment.score =
              MathRound(PrescribedEnvironment(scoreIn.airQuality.pollutants,
                                              scoreIn.weather.current), 600)
        /\ riskAnalysis.impacts.ecosystems.score =
              MathRound(PrescribedEcosystem(scoreIn.airQuality.pollutants,
                                            scoreIn.weather.current), 40)
-----------------------------------------------------------------------------
(* Lifecycle of cache entries (CacheSpec).                                  *)

\* A cache call is made in this step (the clock stands still during a call);
\* ret' names the call.
CacheCall == now' = now /\ <<cache, ret, written>>' # <<cache, ret, written>>

Expired(k) == k \in DOMAIN cache /\ now > cache[k].expires

\* C24: an entry exists only after a set on its key; a get on a key whose
\* entry has expired removes the entry and returns absent; an entry leaves
\* the store only by such a get, by del or by clear; a set on an existing key
\* replaces both value and expiry; get, del and set on one key leave every
\* other key's entry unchanged.
C24_EntryLifecycle ==
    [][/\ DOMAIN cache' \subseteq DOMAIN written'
       /\ CacheCall =>
            /\ (ret'.op = "get" /\ Expired(ret'.key)) =>
                  ret'.key \notin DOMAIN cache' /\ ret'.value = <<>>
            /\ \A k \in DOMAIN cache \ DOMAIN cache' :
                  \/ ret'.op = "clear"
                  \/ ret'.op = "del" /\ ret'.key = k
                  \/ ret'.op = "get" /\ ret'.key = k /\ Expired(k)
            /\ ret'.op = "set" =>
                  /\ ret'.key \in DOMAIN cache'
                  /\ cache'[ret'.key] = [value |-> written'[ret'.key].value,
                                          expires |-> now + written'[ret'.key].ttl]
            /\ ret'.op \in {"get", "del", "set"} =>
                  \A k \in (DOMAIN cache \cup DOMAIN cache') \ {ret'.key} :
                      k \in DOMAIN cache /\ k \in DOMAIN cache' /\ cache'[k] = cache[k]
       /\ ~CacheCall => cache' = cache]_vars

\* A get has just evicted an expired entry while another key keeps its own.
C24_Witness ==
    /\ ret.op = "get"
    /\ ret.value = <<>>
    /\ ret.key \in DOMAIN written
    /\ ret.key \notin DOMAIN cache
    /\ DOMAIN cache # {}

-----------------------------------------------------------------------------
(* Accounts and reports                                                     *)

AdminCall == site.call.op \in {"reports", "verify"}

\* The session named by the last admin request is live: created by a login or
\* a registration and not destroyed by a logout.
LiveSession == site.call.sid \in DOMAIN site.sessions

\* ... and its user has role admin.
AdminSession ==
    /\ LiveSession
    /\ site.sessions[site.call.sid] \in DOMAIN site.users
    /\ site.users[site.sessions[site.call.sid]] = "admin"

Granted == site.call.status = 200

\* The request returned no report and modified none.
NothingDone == site.call.reports = <<>> /\ site.reports = site.call.before

\* What a granted request does: GET returns the reports, verify marks its one.
Served ==
    IF site.call.op = "reports"
    THEN site.call.reports = <<site.reports>> /\ site.reports = site.call.before
    ELSE /\ site.call.id \in DOMAIN site.reports
         /\ site.reports[site.call.id].verified
         /\ \A id \in DOMAIN site.reports \ {site.call.id} :
               site.reports[id] = site.call.before[id]

C26_StoredUnverified ==
    /\ (site.call.op = "report" /\ site.call.status = 200)
          => ~site.reports[site.call.id].verified
    /\ \A id \in DOMAIN site.reports :
          site.reports[id].verified => site.reports[id].verifiedBy = "admin"

-----------------------------------------------------------------------------
(* The browser client                                                       *)

CurrentModule == IF app.currentPage = "dashboard" THEN app.dashboard ELSE app.forecast

\* Changes have stopped and everything pending has completed.
Quiescent ==
    /\ app.timers = {}
    /\ app.dashboard.inflight = <<>> /\ app.forecast.inflight = <<>>
    /\ ~app.loggingOut

\* C27: once changes stop and every pending request and timer has completed,
\* the current page shows the data of the most recently selected city and
\* industry (with the user signed in and no request having failed).
C27_ShowsLatestSelection ==
    (Quiescent /\ app.isAuthenticated /\ ~app.failures)
        => CurrentModule.shown = <<<<app.currentCity, app.currentIndustry>>>>

\* C28: Dashboard and Forecast each have at most one load in flight, and
\* isLoading is true exactly while that load is in flight, so it is false
\* again after every load finished, however it ended.
C28_OneLoadInFlight ==
    \A m \in {app.dashboard, app.forecast} :
        /\ Len(m.inflight) <= 1
        /\ m.isLoading <=> m.inflight # <<>>

\* A Dashboard load was dropped while one is in flight, and a Forecast load
\* that threw left isLoading false.
C28_Witness ==
    /\ app.dashboard.last = "dropped" /\ Len(app.dashboard.inflight) = 1
    /\ app.forecast.last \in {"threw", "renderThrew"} /\ ~app.forecast.isLoading

\* C30: loadCurrentPage calls less than 600 ms apart cause exactly one
\* page-load attempt, 600 ms after the last call, with the page, city and
\* industry current at that moment, and no attempt starts while the user is
\* not authenticated.
C30_Debounce ==
    /\ Cardinality(app.timers) <= 1
    /\ app.fired <= 1
    /\ app.timers = {} => app.fired = 1
    /\ app.attempt # NoAttempt =>
          /\ app.attempt.delay = debounceMs
          /\ app.attempt.authenticated

\* The same without the authentication clause.
DebounceAlone ==
    /\ Cardinality(app.timers) <= 1
    /\ app.fired <= 1
    /\ app.timers = {} => app.fired = 1
    /\ app.attempt # NoAttempt => app.attempt.delay = debounceMs

-----------------------------------------------------------------------------
(* The narrative caches                                                     *)

\* What the enrichers return when the AI call failed.
IsFallback(v) ==
    \/ v = getDefaultForecastInterpretation
    \/ "kind" \in DOMAIN v /\ v.kind \in {"default", "fallback"}

\* Key k holds a fallback whose TTL has not elapsed.
StoredFallback(k) ==
    k \in DOMAIN cache /\ now <= cache[k].expires /\ IsFallback(cache[k].value)

\* The insight a request was answered with.
InsightOf(q) ==
    IF q.kind = "env" THEN q.response.body.data.aiInsights ELSE q.response.body.aiInsights

NarrativeTtl(q) == IF q.kind = "env" THEN AI_CONDITIONS_TTL ELSE AI_FORECAST_TTL

\* What a narrative call returned is stored under the request's AI key with
\* the cache's TTL, and it is what the request is answered with.
StoresWhatWasReturned ==
    /\ \A r \in Requests :
         (req[r].pc = "narrative" /\ req'[r].pc = "done" /\ req'[r].response.status = 200)
           => /\ NarrativeKeyOf(req[r]) \in DOMAIN cache'
              /\ cache'[NarrativeKeyOf(req[r])] =
                   [value |-> InsightOf(req'[r])[1], expires |-> now + NarrativeTtl(req[r])]
    /\ (alert' # alert /\ alert'.result.settled = "resolved"
        /\ ~StoredFallback(AlertKeyOf(alert'.in)))
          => cache'[AlertKeyOf(alert'.in)] =
               [value |-> alert'.result.value, expires |-> now + ALERT_TTL]

\* A request that reaches its AI cache lookup while a fallback is stored under
\* its key is answered with that fallback and makes no AI call.
ServesStoredFallback ==
    /\ \A r \in Requests :
         (req[r].pc = "fetching" /\ req'[r].pc # "fetching" /\ req'[r].risk.status = "ok"
          /\ StoredFallback(NarrativeKeyOf(req'[r])))
           => /\ req'[r].pc = "done"
              /\ req'[r].aiPath = "handlerCache"
              /\ req'[r].response.status = 200
              /\ InsightOf(req'[r]) = <<cache[NarrativeKeyOf(req'[r])].value>>
              /\ cachedModelName' = cachedModelName
    /\ (alert' # alert /\ StoredFallback(AlertKeyOf(alert'.in)))
          => /\ alert'.result.settled = "resolved"
             /\ alert'.result.value = cache[AlertKeyOf(alert'.in)].value
             /\ cachedModelName' = cachedModelName

\* A stored fallback stays stored while its TTL has not elapsed.
FallbackStays ==
    \A k \in DOMAIN cache :
        StoredFallback(k) => k \in DOMAIN cache' /\ cache'[k].value = cache[k].value

\* An AI call that was in flight settles.
NarrativeCallSettles == \E r \in Requests : req[r].pc = "narrative" /\ req'[r].pc = "done"

\* C29 as stated: the AI caches store whatever the enricher returned, and
\* once a fallback is stored every later request with its key is answered with
\* it, without an AI call, until the TTL has elapsed.
C29_FallbackUntilTtlAsStated ==
    [][StoresWhatWasReturned /\ ServesStoredFallback /\ FallbackStays]_vars

\* C29 amended: the AI caches store whatever the enricher returned; a request
\* that finds a fallback stored under its key within the TTL is answered with
\* it and makes no AI call; within the TTL the stored fallback is replaced
\* only when an AI call that was already in flight settles.
C29_FallbackUntilTtl ==
    [][/\ StoresWhatWasReturned
       /\ ServesStoredFallback
       /\ FallbackStays \/ NarrativeCallSettles]_vars

\* A request was answered from the AI cache with the fallback stored by an
\* earlier request, after the payload's own TTL; explainAlert has answered
\* with its fallback too.
C29_Witness ==
    /\ \E r \in Requests :
         /\ req[r].pc = "done" /\ req[r].aiPath = "handlerCache"
         /\ InsightOf(req[r]) # <<>> /\ IsFallback(InsightOf(req[r])[1])
    /\ alert.pc = "done" /\ IsFallback(alert.result.value)
    /\ now > ENV_PAYLOAD_TTL

====
